---- MODULE Spec2Model ----
(***************************************************************************)
(* Model of the Markdown-subset document compiler of enhanced_agent.py:    *)
(* the flow emitter (_markdown_to_odt_content), the fixed-layout line      *)
(* parser (create_assignment_pdf.parse_lines), the greedy word wrapper     *)
(* (wrap_text_simple) and the paginator loop of create_assignment_pdf.     *)
(* Strings are sequences of one-character strings.                         *)
(***************************************************************************)
EXTENDS Integers, Sequences, FiniteSets, TLC

VARIABLES
    \* _markdown_to_odt_content / parse_lines
    text, lines, idx, content_lines, in_list, list_level, parsed, pc,
    \* wrap_text_simple
    wrap_text, max_chars_per_line, words, widx, wrap_lines, current_line,
    current_length, wpc,
    \* paginator loop of create_assignment_pdf
    wrapped, pidx, current_page_content, current_y, pages, page_number, ppc,
    \* the pages saved to the PDF and the include_page_numbers argument
    pdf, include_page_numbers,
    \* wrapping loop of create_assignment_pdf
    parsed_lines, lidx, base_max_chars, max_chars, lpc,
    \* create_assignment_odt
    fields, filename, temp_dir, staged, content_xml, odt_zip, saved_file, opc,
    \* extract_pdf_text
    reader_pages, is_encrypted, eidx, page_texts, decrypts, extracted, epc,
    \* run_analysis / run_assignment
    runner, api_key, reply, invocations, result_state, run_result, rpc,
    \* the Streamlit session of enhanced_streamlit_app.main
    uploaded_file, session_state, displayed

flowVars == <<text, lines, idx, content_lines, in_list, list_level, parsed, pc>>
wrapVars == <<wrap_text, max_chars_per_line, words, widx, wrap_lines,
              current_line, current_length, wpc>>
pageVars == <<wrapped, pidx, current_page_content, current_y, pages,
              page_number, ppc, pdf, include_page_numbers>>
layoutVars == <<parsed_lines, lidx, base_max_chars, max_chars, lpc>>
odtVars == <<fields, filename, temp_dir, staged, content_xml, odt_zip,
             saved_file, opc>>
extractVars == <<reader_pages, is_encrypted, eidx, page_texts, decrypts,
                 extracted, epc>>
llmVars == <<runner, api_key, reply, invocations, result_state, run_result,
             rpc>>
sessionVars == <<uploaded_file, session_state, displayed>>
ioVars == <<odtVars, extractVars, llmVars, sessionVars>>
vars == <<flowVars, wrapVars, pageVars, layoutVars, ioVars>>

----------------------------------------------------------------------------
(* Bounds of the checked input space *)

\* longest text enumerated character by character
MaxTextLen == 5
\* most lines in a text assembled from the sample lines
MaxLines == 4

----------------------------------------------------------------------------
(* Python string primitives *)

\* characters str.strip()/lstrip()/rstrip() remove and the regex \s matches
Whitespace == {" ", "\t", "\n", "\r"}
\* characters the regex \d matches
Digits == {"0", "1", "2", "3", "4", "5", "6", "7", "8", "9"}
\* the character class [\.|\)] of the ordered-list patterns
MarkerClassDotOnly == {"."}
MarkerClass == {".", "|", ")"}

AllIn(s, a, b, S) == \A i \in a..b : s[i] \in S

\* number of leading characters of s that lie in S
LeadingCount(s, S) ==
    CHOOSE k \in 0..Len(s) :
        /\ AllIn(s, 1, k, S)
        /\ (k < Len(s) => s[k + 1] \notin S)

\* number of trailing characters of s that lie in S
TrailingCount(s, S) ==
    CHOOSE k \in 0..Len(s) :
        /\ AllIn(s, Len(s) - k + 1, Len(s), S)
        /\ (k < Len(s) => s[Len(s) - k] \notin S)

\* s[n:]
From(s, n) == SubSeq(s, n + 1, Len(s))

\* s.lstrip(chars)
LStripSet(s, S) == From(s, LeadingCount(s, S))

\* s.lstrip()
LStrip(s) == LStripSet(s, Whitespace)

\* s.rstrip()
RStripNone(s) == s
RStrip(s) == SubSeq(s, 1, Len(s) - TrailingCount(s, Whitespace))

\* s.strip()
Strip(s) == LStrip(RStrip(s))

\* s.startswith(p)
StartsWith(s, p) == Len(s) >= Len(p) /\ SubSeq(s, 1, Len(p)) = p

\* s.split('\n')
RECURSIVE SplitLines(_)
SplitLines(s) ==
    IF \A i \in 1..Len(s) : s[i] # "\n"
    THEN <<s>>
    ELSE LET i == CHOOSE j \in 1..Len(s) :
                      s[j] = "\n" /\ \A m \in 1..(j - 1) : s[m] # "\n"
         IN  <<SubSeq(s, 1, i - 1)>> \o SplitLines(From(s, i))

\* four replacements only: the apostrophe is left as it is
EscapeCharNoApostrophe(c) ==
    CASE c = "&"  -> <<"&", "a", "m", "p", ";">>
      [] c = "<"  -> <<"&", "l", "t", ";">>
      [] c = ">"  -> <<"&", "g", "t", ";">>
      [] c = "\"" -> <<"&", "q", "u", "o", "t", ";">>
      [] OTHER    -> <<c>>
\* the five replacements of _escape_xml, '&' first
EscapeChar(c) ==
    CASE c = "&"  -> <<"&", "a", "m", "p", ";">>
      [] c = "<"  -> <<"&", "l", "t", ";">>
      [] c = ">"  -> <<"&", "g", "t", ";">>
      [] c = "\"" -> <<"&", "q", "u", "o", "t", ";">>
      [] c = "'"  -> <<"&", "a", "p", "o", "s", ";">>
      [] OTHER    -> <<c>>

RECURSIVE _escape_xml(_)
_escape_xml(s) ==
    IF s = <<>> THEN <<>> ELSE EscapeChar(Head(s)) \o _escape_xml(Tail(s))

----------------------------------------------------------------------------
(* The ordered-list patterns *)

\* the splits (a, b, c) of s as \s{a} \d{b-a} [.|)] \s{c-b-1} ...
OrderedSplits(s) ==
    {t \in (0..Len(s)) \X (1..Len(s)) \X (1..Len(s)) :
        /\ t[1] < t[2] /\ t[2] + 1 < t[3]
        /\ AllIn(s, 1, t[1], Whitespace)
        /\ AllIn(s, t[1] + 1, t[2], Digits)
        /\ s[t[2] + 1] \in MarkerClass
        /\ AllIn(s, t[2] + 2, t[3], Whitespace)}

\* re.match(r'^\s*\d+[\.|\)]\s+', s) is not None
OrderedTest(s) == OrderedSplits(s) # {}

\* the splits after which (.+) still matches: one more character, not '\n'
CaptureSplits(s) ==
    {t \in OrderedSplits(s) : t[3] < Len(s) /\ s[t[3] + 1] # "\n"}

\* re.match(r'^(\s*)(\d+)[\.|\)]\s+(.+)', s) is not None
CaptureTest(s) == CaptureSplits(s) # {}

\* the split the greedy quantifiers settle on: longest \s+, then longest .+
CaptureSplit(s) ==
    CHOOSE t \in CaptureSplits(s) : \A u \in CaptureSplits(s) : u[3] <= t[3]

\* match.group(2)
CaptureNumber(s) ==
    LET t == CaptureSplit(s) IN SubSeq(s, t[1] + 1, t[2])

\* match.group(3): up to the end of s or the first '\n'
CaptureText(s) ==
    LET t == CaptureSplit(s)
        rest == From(s, t[3])
        n == LeadingCount(rest, {rest[i] : i \in 1..Len(rest)} \ {"\n"})
    IN  SubSeq(rest, 1, n)

\* re.sub(r"^\d+[\.|\)]\s+", "", s): s without its longest marker match
OrderedRemainder(s) ==
    LET t == CHOOSE u \in OrderedSplits(s) :
                 \A v \in OrderedSplits(s) : v[3] <= u[3]
    IN  From(s, t[3])

----------------------------------------------------------------------------
(* Inputs *)

\* characters of the enumerated texts
Alphabet == {"\n", " ", "#", "-", "1", ".", "a"}

\* every text of at most MaxTextLen characters
CharTexts == UNION {[1..n -> Alphabet] : n \in 0..MaxTextLen}

\* one line of each kind: blank, heading, unordered, ordered, paragraph
SampleLines ==
    {<<>>, <<"#", " ", "a">>, <<"-", " ", "a">>, <<"1", ".", " ", "a">>,
     <<"a">>}

\* '\n'.join(ls)
RECURSIVE JoinLines(_)
JoinLines(ls) ==
    IF Len(ls) = 0 THEN <<>>
    ELSE IF Len(ls) = 1 THEN ls[1]
    ELSE ls[1] \o <<"\n">> \o JoinLines(Tail(ls))

\* every text of at most MaxLines sample lines
SampleTexts ==
    {JoinLines(ls) : ls \in UNION {[1..n -> SampleLines] : n \in 1..MaxLines}}

\* "# Title\n\nPara one.\n- item a\n- item b\n\nPara two."
EndToEndText ==
    <<"#", " ", "T", "i", "t", "l", "e", "\n", "\n",
      "P", "a", "r", "a", " ", "o", "n", "e", ".", "\n",
      "-", " ", "i", "t", "e", "m", " ", "a", "\n",
      "-", " ", "i", "t", "e", "m", " ", "b", "\n", "\n",
      "P", "a", "r", "a", " ", "t", "w", "o", ".">>

\* characters of the texts that try the ordered-item marker
MarkerAlphabet == {" ", "1", ")", "|", "a"}

\* every such text of at most MaxTextLen characters
MarkerTexts == UNION {[1..n -> MarkerAlphabet] : n \in 0..MaxTextLen}

Texts == CharTexts \cup SampleTexts \cup {EndToEndText} \cup MarkerTexts

----------------------------------------------------------------------------
(* Elements of the flow markup body, one per entry of content_lines *)

Element(tag, style, level, txt) ==
    [tag |-> tag, style |-> style, level |-> level, text |-> txt]

\* '<text:list text:style-name="L1">' / "L2"
ListOpen(style) == Element("text:list", style, 0, <<>>)
\* '</text:list>'
ListClose == Element("/text:list", "", 0, <<>>)
\* '<text:p text:style-name="P1"/>'
ParagraphBreak == Element("text:p/", "P1", 0, <<>>)
\* '<text:h text:style-name=style text:outline-level=level>txt</text:h>'
HeadingElement(style, level, txt) == Element("text:h", style, level, txt)
\* '<text:list-item><text:p text:style-name="P2">txt</text:p></text:list-item>'
ListItem(txt) == Element("text:list-item", "P2", 0, txt)
\* '<text:p text:style-name="P1">txt</text:p>'
Paragraph(txt) == Element("text:p", "P1", 0, txt)

\* the bullet prefix of an unordered item's display text
Bullet == <<"BULLET", " ">>

UnorderedMarkers == {<<"-", " ">>, <<"*", " ">>, <<"+", " ">>}

\* s.startswith(('- ', '* ', '+ '))
StartsWithMarker(s) == \E m \in UnorderedMarkers : StartsWith(s, m)

\* line.startswith('#')
IsHeadingSpaced(s) ==
    /\ StartsWith(s, <<"#">>)
    /\ LStripSet(s, {"#"}) # <<>> => LStripSet(s, {"#"})[1] \in Whitespace
IsHeading(s) == StartsWith(s, <<"#">>)

\* the style chosen for a heading of the given level
HeadingStyleByLevel(level) ==
    IF level = 1 THEN "Heading_20_1"
    ELSE IF level = 2 THEN "Heading_20_2"
    ELSE IF level = 3 THEN "Heading_20_3"
    ELSE "Heading_20_4"
HeadingStyle(level) ==
    IF level = 1 THEN "Heading_20_1"
    ELSE IF level = 2 THEN "Heading_20_2"
    ELSE "Heading_20_3"

----------------------------------------------------------------------------
(* _markdown_to_odt_content *)

\* lines = text.strip().split('\n'); content_lines = []; in_list = False
MarkdownToOdtStart ==
    /\ pc = "start"
    /\ lines' = SplitLines(Strip(text))
    /\ idx' = 1
    /\ content_lines' = <<>>
    /\ in_list' = FALSE
    /\ list_level' = 0
    /\ pc' = "odt"
    /\ UNCHANGED <<text, parsed>>
    /\ UNCHANGED <<wrapVars, pageVars, layoutVars>>
    /\ UNCHANGED ioVars

\* line = line.rstrip() of the line the loop is at
FlowLine == RStrip(lines[idx])

InFlowLoop == pc = "odt" /\ idx <= Len(lines)

\* empty line: the list flag is dropped and a paragraph break is added
FlowBlank ==
    /\ InFlowLoop
    /\ FlowLine = <<>>
    /\ in_list' = FALSE
    /\ list_level' = IF in_list THEN 0 ELSE list_level
    /\ content_lines' = Append(content_lines, ParagraphBreak)
    /\ idx' = idx + 1
    /\ UNCHANGED <<text, lines, parsed, pc>>
    /\ UNCHANGED <<wrapVars, pageVars, layoutVars>>
    /\ UNCHANGED ioVars

\* heading line: the list flag is dropped and a heading is added
FlowHeading ==
    /\ InFlowLoop
    /\ FlowLine # <<>>
    /\ IsHeading(FlowLine)
    /\ LET level == Len(FlowLine) - Len(LStripSet(FlowLine, {"#"}))
           heading_text == Strip(From(FlowLine, level))
       IN  content_lines' =
               Append(content_lines,
                      HeadingElement(HeadingStyle(level), level,
                                     _escape_xml(heading_text)))
    /\ in_list' = FALSE
    /\ list_level' = IF in_list THEN 0 ELSE list_level
    /\ idx' = idx + 1
    /\ UNCHANGED <<text, lines, parsed, pc>>
    /\ UNCHANGED <<wrapVars, pageVars, layoutVars>>
    /\ UNCHANGED ioVars

\* unordered item: an L1 container is opened unless a list is open
FlowUnordered ==
    /\ InFlowLoop
    /\ FlowLine # <<>>
    /\ ~IsHeading(FlowLine)
    /\ StartsWithMarker(LStrip(FlowLine))
    /\ LET stripped == LStrip(FlowLine)
           item_text == Strip(From(stripped, 2))
           item == ListItem(Bullet \o _escape_xml(item_text))
       IN  content_lines' =
               IF in_list THEN Append(content_lines, item)
               ELSE content_lines \o <<ListOpen("L1"), item>>
    /\ in_list' = TRUE
    /\ list_level' = IF in_list THEN list_level ELSE 1
    /\ idx' = idx + 1
    /\ UNCHANGED <<text, lines, parsed, pc>>
    /\ UNCHANGED <<wrapVars, pageVars, layoutVars>>
    /\ UNCHANGED ioVars

\* ordered item: an L2 container is opened unless a list is open; the item
\* is added only if the capturing pattern matches
FlowOrdered ==
    /\ InFlowLoop
    /\ FlowLine # <<>>
    /\ ~IsHeading(FlowLine)
    /\ ~StartsWithMarker(LStrip(FlowLine))
    /\ OrderedTest(FlowLine)
    /\ LET opened == IF in_list THEN content_lines
                     ELSE Append(content_lines, ListOpen("L2"))
       IN  content_lines' =
               IF CaptureTest(FlowLine)
               THEN Append(opened,
                           ListItem(CaptureNumber(FlowLine) \o <<".", " ">>
                                    \o _escape_xml(CaptureText(FlowLine))))
               ELSE opened
    /\ in_list' = TRUE
    /\ list_level' = IF in_list THEN list_level ELSE 1
    /\ idx' = idx + 1
    /\ UNCHANGED <<text, lines, parsed, pc>>
    /\ UNCHANGED <<wrapVars, pageVars, layoutVars>>
    /\ UNCHANGED ioVars

\* regular paragraph: an open list is closed first
FlowParagraph ==
    /\ InFlowLoop
    /\ FlowLine # <<>>
    /\ ~IsHeading(FlowLine)
    /\ ~StartsWithMarker(LStrip(FlowLine))
    /\ ~OrderedTest(FlowLine)
    /\ content_lines' =
           (IF in_list THEN Append(content_lines, ListClose)
            ELSE content_lines) \o <<Paragraph(_escape_xml(FlowLine))>>
    /\ in_list' = FALSE
    /\ list_level' = IF in_list THEN 0 ELSE list_level
    /\ idx' = idx + 1
    /\ UNCHANGED <<text, lines, parsed, pc>>
    /\ UNCHANGED <<wrapVars, pageVars, layoutVars>>
    /\ UNCHANGED ioVars

\* after the loop: close any open list and return the body
MarkdownToOdtReturn ==
    /\ pc = "odt"
    /\ idx > Len(lines)
    /\ content_lines' =
           IF in_list THEN Append(content_lines, ListClose) ELSE content_lines
    /\ pc' = "odt_done"
    /\ UNCHANGED <<text, lines, idx, in_list, list_level, parsed>>
    /\ UNCHANGED <<wrapVars, pageVars, layoutVars>>
    /\ UNCHANGED ioVars

----------------------------------------------------------------------------
(* create_assignment_pdf.parse_lines *)

\* a styled line: indent in hundredths, line_height_multiplier in tenths
Styled(txt, size, weight, indent, multiplier) ==
    [text |-> txt, fontsize |-> size, weight |-> weight, indent |-> indent,
     line_height_multiplier |-> multiplier]

\* (fontsize, weight, multiplier) of a heading of the given level
HeadingSizeTwoLevels(level) ==
    IF level = 1 THEN <<18, "bold", 20>>
    ELSE <<16, "bold", 18>>
HeadingSize(level) ==
    IF level = 1 THEN <<18, "bold", 20>>
    ELSE IF level = 2 THEN <<16, "bold", 18>>
    ELSE <<14, "bold", 16>>

\* re.match(r"^\d+[\.|\)]\s+", s) and re.match(r"^(\d+)[\.|\)]\s+", s)
NumberSplits(s) == {t \in OrderedSplits(s) : t[1] = 0}

\* match.group(1)
NumberCapture(s) ==
    LET t == CHOOSE u \in NumberSplits(s) :
                 \A v \in NumberSplits(s) : v[3] <= u[3]
    IN  SubSeq(s, 1, t[2])

\* parsed = []; lines = text.strip().split("\n")
ParseLinesStart ==
    /\ pc = "odt_done"
    /\ lines' = SplitLines(Strip(text))
    /\ idx' = 1
    /\ parsed' = <<>>
    /\ pc' = "parse"
    /\ UNCHANGED <<text, content_lines, in_list, list_level>>
    /\ UNCHANGED <<wrapVars, pageVars, layoutVars>>
    /\ UNCHANGED ioVars

\* line = raw.rstrip() of the line the loop is at
ParseLine == RStrip(lines[idx])

InParseLoop == pc = "parse" /\ idx <= Len(lines)

ParseBlank ==
    /\ InParseLoop
    /\ ParseLine = <<>>
    /\ parsed' = Append(parsed, Styled(<<>>, 12, "normal", 0, 5))
    /\ idx' = idx + 1
    /\ UNCHANGED <<text, lines, content_lines, in_list, list_level, pc>>
    /\ UNCHANGED <<wrapVars, pageVars, layoutVars>>
    /\ UNCHANGED ioVars

ParseHeading ==
    /\ InParseLoop
    /\ ParseLine # <<>>
    /\ IsHeading(LStrip(ParseLine))
    /\ LET stripped == LStrip(ParseLine)
           level == Len(stripped) - Len(LStripSet(stripped, {"#"}))
           content == Strip(From(stripped, level))
           sz == HeadingSize(level)
       IN  parsed' = Append(parsed, Styled(content, sz[1], sz[2], 0, sz[3]))
    /\ idx' = idx + 1
    /\ UNCHANGED <<text, lines, content_lines, in_list, list_level, pc>>
    /\ UNCHANGED <<wrapVars, pageVars, layoutVars>>
    /\ UNCHANGED ioVars

ParseUnordered ==
    /\ InParseLoop
    /\ ParseLine # <<>>
    /\ ~IsHeading(LStrip(ParseLine))
    /\ StartsWithMarker(LStrip(ParseLine))
    /\ LET content == Strip(From(LStrip(ParseLine), 2))
       IN  parsed' = Append(parsed,
                            Styled(Bullet \o content, 12, "normal", 3, 12))
    /\ idx' = idx + 1
    /\ UNCHANGED <<text, lines, content_lines, in_list, list_level, pc>>
    /\ UNCHANGED <<wrapVars, pageVars, layoutVars>>
    /\ UNCHANGED ioVars

\* the block is added only if the second, capturing match succeeds
ParseOrdered ==
    /\ InParseLoop
    /\ ParseLine # <<>>
    /\ ~IsHeading(LStrip(ParseLine))
    /\ ~StartsWithMarker(LStrip(ParseLine))
    /\ NumberSplits(LStrip(ParseLine)) # {}
    /\ LET stripped == LStrip(ParseLine)
       IN  parsed' =
               IF NumberSplits(stripped) # {}
               THEN Append(parsed,
                           Styled(NumberCapture(stripped) \o <<".", " ">>
                                  \o OrderedRemainder(stripped),
                                  12, "normal", 3, 12))
               ELSE parsed
    /\ idx' = idx + 1
    /\ UNCHANGED <<text, lines, content_lines, in_list, list_level, pc>>
    /\ UNCHANGED <<wrapVars, pageVars, layoutVars>>
    /\ UNCHANGED ioVars

ParseParagraph ==
    /\ InParseLoop
    /\ ParseLine # <<>>
    /\ ~IsHeading(LStrip(ParseLine))
    /\ ~StartsWithMarker(LStrip(ParseLine))
    /\ NumberSplits(LStrip(ParseLine)) = {}
    /\ parsed' = Append(parsed, Styled(Strip(ParseLine), 12, "normal", 0, 13))
    /\ idx' = idx + 1
    /\ UNCHANGED <<text, lines, content_lines, in_list, list_level, pc>>
    /\ UNCHANGED <<wrapVars, pageVars, layoutVars>>
    /\ UNCHANGED ioVars

\* return parsed
ParseLinesReturn ==
    /\ pc = "parse"
    /\ idx > Len(lines)
    /\ pc' = "done"
    /\ UNCHANGED <<text, lines, idx, content_lines, in_list, list_level,
                   parsed>>
    /\ UNCHANGED <<wrapVars, pageVars, layoutVars>>
    /\ UNCHANGED ioVars

----------------------------------------------------------------------------
(* create_assignment_pdf.wrap_text_simple *)

\* s.split(): the maximal runs of non-whitespace characters of s
RECURSIVE SplitWords(_)
SplitWords(s) ==
    LET t == LStrip(s)
        n == LeadingCount(t, {t[i] : i \in 1..Len(t)} \ Whitespace)
    IN  IF t = <<>> THEN <<>>
        ELSE <<SubSeq(t, 1, n)>> \o SplitWords(From(t, n))

\* ' '.join(ws)
RECURSIVE JoinWords(_)
JoinWords(ws) ==
    IF Len(ws) = 0 THEN <<>>
    ELSE IF Len(ws) = 1 THEN ws[1]
    ELSE ws[1] \o <<" ">> \o JoinWords(Tail(ws))

\* if not text.strip(): return [""]
WrapEmpty ==
    /\ wpc = "start"
    /\ Strip(wrap_text) = <<>>
    /\ wrap_lines' = << <<>> >>
    /\ wpc' = "done"
    /\ UNCHANGED <<wrap_text, max_chars_per_line, words, widx, current_line,
                   current_length>>
    /\ UNCHANGED <<flowVars, pageVars, layoutVars>>
    /\ UNCHANGED ioVars

\* words = text.split(); lines = []; current_line = []; current_length = 0
WrapStart ==
    /\ wpc = "start"
    /\ Strip(wrap_text) # <<>>
    /\ words' = SplitWords(wrap_text)
    /\ widx' = 1
    /\ wrap_lines' = <<>>
    /\ current_line' = <<>>
    /\ current_length' = 0
    /\ wpc' = "loop"
    /\ UNCHANGED <<wrap_text, max_chars_per_line>>
    /\ UNCHANGED <<flowVars, pageVars, layoutVars>>
    /\ UNCHANGED ioVars

\* space_length = 1 if current_line else 0
SpaceLengthTwo == IF current_line # <<>> THEN 2 ELSE 0
SpaceLength == IF current_line # <<>> THEN 1 ELSE 0

\* current_length + space_length + word_length <= max_chars_per_line
FitsNoSpace(word) == current_length + Len(word) <= max_chars_per_line
Fits(word) == current_length + SpaceLength + Len(word) <= max_chars_per_line

\* if current_line: lines.append(' '.join(current_line))
FlushAlways(ls, cur) == Append(ls, JoinWords(cur))
Flush(ls, cur) == IF cur # <<>> THEN Append(ls, JoinWords(cur)) ELSE ls

\* current_line = [word]
RestartEmpty(word) == <<>>
Restart(word) == <<word>>

\* the word fits on the current line
WrapFit ==
    /\ wpc = "loop"
    /\ widx <= Len(words)
    /\ Fits(words[widx])
    /\ current_line' = Append(current_line, words[widx])
    /\ current_length' = current_length + SpaceLength + Len(words[widx])
    /\ widx' = widx + 1
    /\ UNCHANGED <<wrap_text, max_chars_per_line, words, wrap_lines, wpc>>
    /\ UNCHANGED <<flowVars, pageVars, layoutVars>>
    /\ UNCHANGED ioVars

\* the word does not fit: the current line is closed and a new one started
WrapBreak ==
    /\ wpc = "loop"
    /\ widx <= Len(words)
    /\ ~Fits(words[widx])
    /\ wrap_lines' = Flush(wrap_lines, current_line)
    /\ current_line' = Restart(words[widx])
    /\ current_length' = Len(words[widx])
    /\ widx' = widx + 1
    /\ UNCHANGED <<wrap_text, max_chars_per_line, words, wpc>>
    /\ UNCHANGED <<flowVars, pageVars, layoutVars>>
    /\ UNCHANGED ioVars

\* after the loop: flush the last line; return lines if lines else [""]
WrapReturn ==
    /\ wpc = "loop"
    /\ widx > Len(words)
    /\ LET ls == Flush(wrap_lines, current_line)
       IN  wrap_lines' = IF ls # <<>> THEN ls ELSE << <<>> >>
    /\ wpc' = "done"
    /\ UNCHANGED <<wrap_text, max_chars_per_line, words, widx, current_line,
                   current_length>>
    /\ UNCHANGED <<flowVars, pageVars, layoutVars>>
    /\ UNCHANGED ioVars

----------------------------------------------------------------------------
(* The paginator loop of create_assignment_pdf.  Lengths are in 1/600 inch *)
(* on the page of height 11.69 in, so that every line height is a whole    *)
(* number: each is a multiple of 4 while the content box measures 5814,    *)
(* so no comparison of the loop is ever within rounding distance.          *)

\* height = 11.69 (inches)
PageHeight == 7014
\* top_margin_in = 1.0
TopMargin == 600
\* bottom_margin_in = 1.0
BottomMargin == 600
\* base_line_height_in = 0.2
BaseLineHeight == 120

\* 1.0 - top_margin
TopY == PageHeight - TopMargin

\* line_height = base_line_height * multiplier * (fs / 12.0)
LineHeight(style) ==
    (BaseLineHeight * style.line_height_multiplier * style.fontsize) \div 120

\* current_y - line_height < bottom_margin
OverflowsIgnoringHeight(style) == current_y < BottomMargin
Overflows(style) == current_y - LineHeight(style) < BottomMargin

\* render_page(lines): the page is saved under page_number
RenderPage(ls) == [lines |-> ls, page_number |-> page_number]

\* a page as pdf.savefig stores it; caption 0 stands for no "Page n" text
SavedPage(kind, ls, caption) == [kind |-> kind, lines |-> ls, caption |-> caption]

\* y_position = 1.0 - top_margin at the start of render_page
RenderStartLowered == TopY - BaseLineHeight
RenderStart == TopY

\* the lines render_page reaches before its break: y_position goes down by
\* each line's height, and the loop stops once it is below bottom_margin
RECURSIVE RenderedLines(_, _)
RenderedLines(ls, y_position) ==
    IF ls = <<>> THEN <<>>
    ELSE LET y == y_position - LineHeight(Head(ls))
         IN  IF y < BottomMargin THEN <<>>
             ELSE <<Head(ls)>> \o RenderedLines(Tail(ls), y)

\* if text_line: ax.text(...) -- only a line with text is drawn
DrawnLineAlways(l) == TRUE
DrawnLine(l) == l.text # <<>>

\* the lines of a saved page that ax.text was called for
DrawnLines(page) == SelectSeq(page.lines, DrawnLine)

\* the page render_page saves: captioned only if include_page_numbers
ContentPage(ls) ==
    SavedPage("content", RenderedLines(ls, RenderStart),
              IF include_page_numbers THEN page_number ELSE 0)

\* the cover page is saved without a caption; after parsing and wrapping,
\* page_number = 1, current_page_content = [], current_y = 1.0 - top_margin
CoverPageNumbered ==
    /\ ppc = "cover"
    /\ pdf' = <<SavedPage("cover", <<>>, 0)>>
    /\ page_number' = 2
    /\ current_page_content' = <<>>
    /\ current_y' = TopY
    /\ pidx' = 1
    /\ ppc' = "loop"
    /\ UNCHANGED <<wrapped, pages, include_page_numbers>>
    /\ UNCHANGED <<flowVars, wrapVars, layoutVars>>
    /\ UNCHANGED ioVars

CoverPage ==
    /\ ppc = "cover"
    /\ pdf' = <<SavedPage("cover", <<>>, 0)>>
    /\ page_number' = 1
    /\ current_page_content' = <<>>
    /\ current_y' = TopY
    /\ pidx' = 1
    /\ ppc' = "loop"
    /\ UNCHANGED <<wrapped, pages, include_page_numbers>>
    /\ UNCHANGED <<flowVars, wrapVars, layoutVars>>
    /\ UNCHANGED ioVars

InPaginateLoop == ppc = "loop" /\ pidx <= Len(wrapped)

\* the fragment does not fit and the page is non-empty: the page is
\* rendered, a new one is started, and the fragment is put on it
PaginateBreakDropping ==
    /\ InPaginateLoop
    /\ Overflows(wrapped[pidx])
    /\ current_page_content # <<>>
    /\ pages' = Append(pages, RenderPage(current_page_content))
    /\ pdf' = Append(pdf, ContentPage(current_page_content))
    /\ page_number' = page_number + 1
    /\ current_page_content' = <<>>
    /\ current_y' = TopY
    /\ pidx' = pidx + 1
    /\ UNCHANGED <<wrapped, ppc, include_page_numbers>>
    /\ UNCHANGED <<flowVars, wrapVars, layoutVars>>
    /\ UNCHANGED ioVars

PaginateBreak ==
    /\ InPaginateLoop
    /\ Overflows(wrapped[pidx])
    /\ current_page_content # <<>>
    /\ pages' = Append(pages, RenderPage(current_page_content))
    /\ pdf' = Append(pdf, ContentPage(current_page_content))
    /\ page_number' = page_number + 1
    /\ current_page_content' = <<wrapped[pidx]>>
    /\ current_y' = TopY - LineHeight(wrapped[pidx])
    /\ pidx' = pidx + 1
    /\ UNCHANGED <<wrapped, ppc, include_page_numbers>>
    /\ UNCHANGED <<flowVars, wrapVars, layoutVars>>
    /\ UNCHANGED ioVars

\* otherwise the fragment is put on the current page
PaginateAppend ==
    /\ InPaginateLoop
    /\ ~(Overflows(wrapped[pidx]) /\ current_page_content # <<>>)
    /\ current_page_content' = Append(current_page_content, wrapped[pidx])
    /\ current_y' = current_y - LineHeight(wrapped[pidx])
    /\ pidx' = pidx + 1
    /\ UNCHANGED <<wrapped, pages, page_number, ppc, pdf, include_page_numbers>>
    /\ UNCHANGED <<flowVars, wrapVars, layoutVars>>
    /\ UNCHANGED ioVars

\* after the loop: render the final page if it is non-empty
PaginateFinal ==
    /\ ppc = "loop"
    /\ pidx > Len(wrapped)
    /\ IF current_page_content # <<>>
       THEN /\ pages' = Append(pages, RenderPage(current_page_content))
            /\ pdf' = Append(pdf, ContentPage(current_page_content))
            /\ page_number' = page_number + 1
       ELSE UNCHANGED <<pages, pdf, page_number>>
    /\ ppc' = "done"
    /\ UNCHANGED <<wrapped, pidx, current_page_content, current_y,
                   include_page_numbers>>
    /\ UNCHANGED <<flowVars, wrapVars, layoutVars>>
    /\ UNCHANGED ioVars

----------------------------------------------------------------------------
(* The wrapping loop of create_assignment_pdf.  Widths are in 1/100 inch   *)
(* on the page of width 8.27 in; a style's indent is in hundredths of the  *)
(* page width.  The budget is computed exactly; for every base up to 200   *)
(* and every style of parse_lines the floating-point product of the code   *)
(* truncates to the same integer.                                          *)

\* width = 8.27 (inches)
PageWidth == 827
\* left_margin_in = 1.0
LeftMargin == 100
\* right_margin_in = 1.0
RightMargin == 100
\* the characters per page width of base_max_chars
CharsPerWidth == 120

\* available_width = 1.0 - left_margin - right_margin, times the page width
AvailableWidth == PageWidth - LeftMargin - RightMargin

\* base_max_chars = int(available_width * 120)
BaseMaxChars == (AvailableWidth * CharsPerWidth) \div PageWidth

\* max_chars = int(base_max_chars * size_factor * indent_factor) with
\* size_factor = 12.0 / fs, indent_factor = (available_width - indent) /
\* available_width
MaxCharsTruncatedFactor(base, fs, indent) ==
    (base * (12 \div fs) * (100 * AvailableWidth - PageWidth * indent))
        \div (100 * AvailableWidth)
MaxCharsFor(base, fs, indent) ==
    (base * 12 * (100 * AvailableWidth - PageWidth * indent))
        \div (fs * 100 * AvailableWidth)

\* the loop of wrap_text_simple over the words ws, with the lines closed so
\* far, the current line and its length
RECURSIVE WrapWords(_, _, _, _, _)
WrapWords(ws, ls, cur, len, max) ==
    IF ws = <<>>
    THEN LET out == IF cur # <<>> THEN Append(ls, JoinWords(cur)) ELSE ls
         IN  IF out # <<>> THEN out ELSE << <<>> >>
    ELSE LET word == Head(ws)
             space_length == IF cur # <<>> THEN 1 ELSE 0
         IN  IF len + space_length + Len(word) <= max
             THEN WrapWords(Tail(ws), ls, Append(cur, word),
                            len + space_length + Len(word), max)
             ELSE WrapWords(Tail(ws),
                            IF cur # <<>> THEN Append(ls, JoinWords(cur))
                            ELSE ls,
                            <<word>>, Len(word), max)

\* wrap_text_simple(t, max) as a function
wrap_text_simple(t, max) ==
    IF Strip(t) = <<>> THEN << <<>> >>
    ELSE WrapWords(SplitWords(t), <<>>, <<>>, 0, max)

\* the fragments of a block: each gets a copy of the block's style, and all
\* but the last get the multiplier 1.0
BlockFragmentsAliased(block, ls) ==
    [i \in 1..Len(ls) |->
        [block EXCEPT !.text = ls[i],
                      !.line_height_multiplier =
                          IF Len(ls) > 1 THEN 10 ELSE @]]
BlockFragments(block, ls) ==
    [i \in 1..Len(ls) |->
        [block EXCEPT !.text = ls[i],
                      !.line_height_multiplier =
                          IF i < Len(ls) THEN 10 ELSE @]]

InLayoutLoop == lpc = "layout" /\ lidx <= Len(parsed_lines)

\* text_line == "": the block goes to wrapped as it is
LayoutBlank ==
    /\ InLayoutLoop
    /\ parsed_lines[lidx].text = <<>>
    /\ wrapped' = Append(wrapped, parsed_lines[lidx])
    /\ lidx' = lidx + 1
    /\ UNCHANGED <<parsed_lines, base_max_chars, max_chars, lpc>>
    /\ UNCHANGED <<pidx, current_page_content, current_y, pages, page_number,
                   ppc, pdf, include_page_numbers>>
    /\ UNCHANGED <<flowVars, wrapVars>>
    /\ UNCHANGED ioVars

\* otherwise the budget is derived and the text wrapped into fragments
LayoutBlock ==
    /\ InLayoutLoop
    /\ parsed_lines[lidx].text # <<>>
    /\ max_chars' = MaxCharsFor(base_max_chars, parsed_lines[lidx].fontsize,
                                parsed_lines[lidx].indent)
    /\ wrapped' = wrapped \o
           BlockFragments(parsed_lines[lidx],
                          wrap_text_simple(parsed_lines[lidx].text, max_chars'))
    /\ lidx' = lidx + 1
    /\ UNCHANGED <<parsed_lines, base_max_chars, lpc>>
    /\ UNCHANGED <<pidx, current_page_content, current_y, pages, page_number,
                   ppc, pdf, include_page_numbers>>
    /\ UNCHANGED <<flowVars, wrapVars>>
    /\ UNCHANGED ioVars

\* after the loop
LayoutDone ==
    /\ lpc = "layout"
    /\ lidx > Len(parsed_lines)
    /\ lpc' = "wrapped"
    /\ UNCHANGED <<parsed_lines, lidx, base_max_chars, max_chars>>
    /\ UNCHANGED <<flowVars, wrapVars, pageVars>>
    /\ UNCHANGED ioVars

----------------------------------------------------------------------------
(* Idle values of the parts a specification does not run *)

FlowIdle ==
    /\ text = <<>> /\ lines = <<>> /\ idx = 0 /\ content_lines = <<>>
    /\ in_list = FALSE /\ list_level = 0 /\ parsed = <<>> /\ pc = "idle"

WrapIdle ==
    /\ wrap_text = <<>> /\ max_chars_per_line = 0 /\ words = <<>> /\ widx = 0
    /\ wrap_lines = <<>> /\ current_line = <<>> /\ current_length = 0
    /\ wpc = "idle"

PageIdle ==
    /\ wrapped = <<>> /\ pidx = 0 /\ current_page_content = <<>>
    /\ current_y = 0 /\ pages = <<>> /\ page_number = 0 /\ ppc = "idle"
    /\ pdf = <<>> /\ include_page_numbers = TRUE

LayoutIdle ==
    /\ parsed_lines = <<>> /\ lidx = 0 /\ base_max_chars = 0 /\ max_chars = 0
    /\ lpc = "idle"

\* no field of the session is set
\* the file uploader holds no file
NoFile == [name |-> "None", content |-> "None"]

\* the run shows no generated assignment and offers no download
NothingShown == [assignment |-> "None", download |-> "None"]

\* the session state of the first run: nothing uploaded, analysed, generated
NoSession ==
    [pdf_text |-> "None", analysis_result |-> "None",
     uploaded_filename |-> "None", generated_assignment |-> "None"]

OdtIdle ==
    /\ fields = <<>> /\ filename = FALSE /\ temp_dir = "none" /\ staged = <<>>
    /\ content_xml = <<>> /\ odt_zip = <<>> /\ saved_file = FALSE
    /\ opc = "idle"

ExtractIdle ==
    /\ reader_pages = <<>> /\ is_encrypted = FALSE /\ eidx = 0
    /\ page_texts = <<>> /\ decrypts = <<>> /\ extracted = <<>>
    /\ epc = "idle"

LlmIdle ==
    /\ runner = "none" /\ api_key = FALSE /\ reply = <<>> /\ invocations = 0
    /\ result_state = <<>> /\ run_result = <<>> /\ rpc = "idle"

SessionIdle ==
    /\ uploaded_file = NoFile /\ session_state = NoSession
    /\ displayed = NothingShown

IoIdle == OdtIdle /\ ExtractIdle /\ LlmIdle /\ SessionIdle

----------------------------------------------------------------------------
(* Both tracks applied to one assignment text, the flow track first *)

Init ==
    /\ text \in Texts
    /\ lines = <<>> /\ idx = 0 /\ content_lines = <<>>
    /\ in_list = FALSE /\ list_level = 0 /\ parsed = <<>> /\ pc = "start"
    /\ WrapIdle
    /\ PageIdle
    /\ LayoutIdle
    /\ IoIdle

Next ==
    \/ MarkdownToOdtStart
    \/ FlowBlank
    \/ FlowHeading
    \/ FlowUnordered
    \/ FlowOrdered
    \/ FlowParagraph
    \/ MarkdownToOdtReturn
    \/ ParseLinesStart
    \/ ParseBlank
    \/ ParseHeading
    \/ ParseUnordered
    \/ ParseOrdered
    \/ ParseParagraph
    \/ ParseLinesReturn

Spec == Init /\ [][Next]_vars

----------------------------------------------------------------------------
(* Properties of the flow emitter *)

\* number of entries of body with the given tag
CountTag(body, tag) == Cardinality({i \in DOMAIN body : body[i].tag = tag})

\* a list container is open at the end of body
ContainerOpen(body) == CountTag(body, "text:list") > CountTag(body, "/text:list")

\* the body has been returned by _markdown_to_odt_content
FlowReturned == pc \in {"odt_done", "parse", "done"}

ContentTags == {"text:h", "text:list-item", "text:p", "text:p/"}

\* number of content elements (everything but list open and close tags)
ContentCount(body) ==
    Cardinality({i \in DOMAIN body : body[i].tag \in ContentTags})

\* C1: the returned body has as many list close tags as list open tags.
C1_BalancedListTags ==
    FlowReturned =>
        CountTag(content_lines, "/text:list") = CountTag(content_lines, "text:list")

\* C2: a Blank, Heading or Paragraph line processed while a list container
\* is open gets the container's close tag right before its own element.
C2_CloseBeforeNonListLine ==
    [][(/\ FlowBlank \/ FlowHeading \/ FlowParagraph
        /\ ContainerOpen(content_lines))
       => /\ Len(content_lines') = Len(content_lines) + 2
          /\ content_lines'[Len(content_lines) + 1] = ListClose]_vars

\* the body the end-to-end example is specified to produce
EndToEndBody ==
    <<HeadingElement("Heading_20_1", 1, <<"T", "i", "t", "l", "e">>),
      ParagraphBreak,
      Paragraph(<<"P", "a", "r", "a", " ", "o", "n", "e", ".">>),
      ListOpen("L1"),
      ListItem(Bullet \o <<"i", "t", "e", "m", " ", "a">>),
      ListItem(Bullet \o <<"i", "t", "e", "m", " ", "b">>),
      ListClose,
      ParagraphBreak,
      Paragraph(<<"P", "a", "r", "a", " ", "t", "w", "o", ".">>)>>

\* C3: the end-to-end example yields heading, break, paragraph, list open,
\* two items, list close, break, paragraph, in this order.
C3_EndToEndBody ==
    (FlowReturned /\ text = EndToEndText) => content_lines = EndToEndBody

\* the style of the container the i-th entry of body lies in, "" if none
ContainerOf(body, i) ==
    LET before == {j \in 1..(i - 1) : body[j].tag \in {"text:list", "/text:list"}}
    IN  IF before = {} THEN ""
        ELSE LET j == CHOOSE k \in before : \A m \in before : m <= k
             IN  body[j].style

\* the container style of an item's category: L1 for bullets, L2 for numbers
ItemStyle(item) == IF StartsWith(item.text, Bullet) THEN "L1" ELSE "L2"

\* C4: every list item lies in a container of its own category, also when
\* an ordered item directly follows an unordered one or the reverse.
C4_ItemInOwnContainer ==
    \A i \in DOMAIN content_lines :
        content_lines[i].tag = "text:list-item"
            => ContainerOf(content_lines, i) = ItemStyle(content_lines[i])

\* C5: every line of the stripped text yields exactly one content element
\* of the flow body and exactly one styled block of parse_lines; no line
\* that passes the ordered-list test is dropped by the capturing match.
C5_OneElementPerLine ==
    /\ pc = "odt" => ContentCount(content_lines) = idx - 1
    /\ FlowReturned => ContentCount(content_lines) = Len(lines)
    /\ pc = "parse" => Len(parsed) = idx - 1
    /\ pc = "done" => Len(parsed) = Len(lines)

\* both tracks are through a text with an ordered item after a first line
C5_Witness ==
    /\ pc = "done"
    /\ Len(lines) >= 2
    /\ \E i \in 2..Len(lines) : OrderedTest(RStrip(lines[i]))
    /\ \E i \in DOMAIN content_lines :
           /\ content_lines[i].tag = "text:list-item"
           /\ ~StartsWith(content_lines[i].text, Bullet)

----------------------------------------------------------------------------
(* wrap_text_simple applied to one text under one character budget *)

\* longest text handed to the wrapper
MaxWrapLen == 8
\* largest character budget
MaxChars == 4

WrapAlphabet == {" ", "a", "b"}

WrapTexts == UNION {[1..n -> WrapAlphabet] : n \in 0..MaxWrapLen}

InitWrap ==
    /\ wrap_text \in WrapTexts
    /\ max_chars_per_line \in 1..MaxChars
    /\ words = <<>> /\ widx = 0 /\ wrap_lines = <<>> /\ current_line = <<>>
    /\ current_length = 0 /\ wpc = "start"
    /\ FlowIdle
    /\ PageIdle
    /\ LayoutIdle
    /\ IoIdle

NextWrap ==
    \/ WrapEmpty
    \/ WrapStart
    \/ WrapFit
    \/ WrapBreak
    \/ WrapReturn

SpecWrap == InitWrap /\ [][NextWrap]_vars

\* the fragments closed so far, and all of them once wrap has returned
IsWord(f) == f # <<>> /\ \A i \in 1..Len(f) : f[i] \notin Whitespace

\* C8: every fragment is at most max_chars_per_line long unless it is a
\* single word that is itself longer than the budget.
C8_FragmentWithinBudget ==
    \A i \in DOMAIN wrap_lines :
        \/ Len(wrap_lines[i]) <= max_chars_per_line
        \/ IsWord(wrap_lines[i])

\* wrap has returned at least two fragments, one of them an overlong word
C8_Witness ==
    /\ wpc = "done"
    /\ Len(wrap_lines) >= 2
    /\ \E i \in DOMAIN wrap_lines : Len(wrap_lines[i]) > max_chars_per_line
    /\ \E i \in DOMAIN wrap_lines :
           ~IsWord(wrap_lines[i]) /\ Len(wrap_lines[i]) = max_chars_per_line

\* the words of the fragments fs, in order
RECURSIVE FragmentWords(_)
FragmentWords(fs) ==
    IF fs = <<>> THEN <<>> ELSE SplitWords(Head(fs)) \o FragmentWords(Tail(fs))

\* C9: the words of the returned fragments, in order, are exactly the words
\* of the text, and a word longer than the budget is alone on its fragment.
C9_WordsPreserved ==
    wpc = "done" =>
        /\ FragmentWords(wrap_lines) = SplitWords(wrap_text)
        /\ \A i \in DOMAIN wrap_lines :
               Len(wrap_lines[i]) > max_chars_per_line => IsWord(wrap_lines[i])
        /\ \A i \in DOMAIN wrap_lines :
               \A j \in 1..Len(SplitWords(wrap_lines[i])) :
                   Len(SplitWords(wrap_lines[i])[j]) > max_chars_per_line
                       => wrap_lines[i] = SplitWords(wrap_lines[i])[j]

\* wrap has returned an overlong word between two other fragments
C9_Witness ==
    /\ wpc = "done"
    /\ Len(wrap_lines) >= 3
    /\ Len(wrap_lines[2]) > max_chars_per_line
    /\ Len(SplitWords(wrap_text)) >= 3

\* C10: wrap returns at least one fragment; exactly one empty fragment for
\* a text without words; no empty fragment for a text with a word.
C10_FragmentCount ==
    wpc = "done" =>
        /\ Len(wrap_lines) >= 1
        /\ SplitWords(wrap_text) = <<>> => wrap_lines = << <<>> >>
        /\ SplitWords(wrap_text) # <<>> =>
               \A i \in DOMAIN wrap_lines : wrap_lines[i] # <<>>

\* wrap has returned for a text whose first word exceeds the budget
C10_Witness ==
    /\ wpc = "done"
    /\ SplitWords(wrap_text) # <<>>
    /\ Len(SplitWords(wrap_text)[1]) > max_chars_per_line
    /\ Len(wrap_lines) >= 2

\* wrap has returned the single empty fragment for a whitespace-only text
C10_WitnessEmpty ==
    /\ wpc = "done"
    /\ wrap_text # <<>>
    /\ wrap_lines = << <<>> >>

----------------------------------------------------------------------------
(* The paginator applied to one sequence of wrapped fragments *)

\* most fragments in a wrapped sequence
MaxFrags == 40
\* longest repeating pattern of styles in a wrapped sequence
MaxPeriod == 2

\* the styles parse_lines assigns, and each with the multiplier 1.0 that a
\* continuation fragment gets
BlockStyles ==
    {<<18, "bold", 0, 20>>, <<16, "bold", 0, 18>>, <<14, "bold", 0, 16>>,
     <<12, "normal", 3, 12>>, <<12, "normal", 0, 13>>, <<12, "normal", 0, 5>>}

FragmentStyles == BlockStyles \cup {<<b[1], b[2], b[3], 10>> : b \in BlockStyles}

\* the i-th fragment, its text standing for any text: the loop never reads it
Fragment(i, st) == Styled(<<i>>, st[1], st[2], st[3], st[4])

\* n fragments whose styles repeat with period p: p - 1 of s1, then one of
\* s2; never none, as parse_lines returns at least one block
WrappedFamily ==
    {[i \in 1..n |-> Fragment(i, IF i % p = 0 THEN s2 ELSE s1)] :
        n \in 1..MaxFrags, p \in 1..MaxPeriod,
        s1 \in FragmentStyles, s2 \in FragmentStyles}

InitPage ==
    /\ wrapped \in WrappedFamily
    /\ include_page_numbers \in BOOLEAN
    /\ pidx = 0
    /\ current_page_content = <<>>
    /\ current_y = 0
    /\ pages = <<>>
    /\ pdf = <<>>
    /\ page_number = 0
    /\ ppc = "cover"
    /\ FlowIdle
    /\ WrapIdle
    /\ LayoutIdle
    /\ IoIdle

NextPage ==
    \/ CoverPage
    \/ PaginateBreak
    \/ PaginateAppend
    \/ PaginateFinal

SpecPage == InitPage /\ [][NextPage]_vars

\* the fragments of the rendered pages ps, in page then in-page order
RECURSIVE PageFragments(_)
PageFragments(ps) ==
    IF ps = <<>> THEN <<>> ELSE Head(ps).lines \o PageFragments(Tail(ps))

\* C6: the fragments passed to render_page, in page order then in-page
\* order, are exactly the wrapped fragments: none dropped, doubled or moved.
C6_PaginationPreservesFragments ==
    /\ ppc = "loop" =>
           PageFragments(pages) \o current_page_content
               = SubSeq(wrapped, 1, pidx - 1)
    /\ ppc = "done" => PageFragments(pages) = wrapped

\* the paginator has finished a sequence that took three pages
C6_Witness ==
    /\ ppc = "done"
    /\ Len(pages) >= 3
    /\ \E i, j \in DOMAIN wrapped :
           LineHeight(wrapped[i]) # LineHeight(wrapped[j])

\* the sum of the line heights of the fragments fs
RECURSIVE SumHeights(_)
SumHeights(fs) ==
    IF fs = <<>> THEN 0 ELSE LineHeight(Head(fs)) + SumHeights(Tail(fs))

\* C7: in the loop a page is closed, and the cursor restarted from
\* 1 - topMargin, exactly when the next fragment's line height would take
\* the cursor below bottomMargin and the page is non-empty; the cursor is
\* never below bottomMargin and no page is higher than the content box.
C7_PageClosedWhenFull ==
    /\ [][(ppc = "loop" /\ pidx' = pidx + 1) =>
            LET h == LineHeight(wrapped[pidx])
                full == current_y - h < BottomMargin
                           /\ current_page_content # <<>>
            IN  /\ (Len(pages') = Len(pages) + 1) <=> full
                /\ full => current_y' = PageHeight - TopMargin - h
                /\ ~full => current_y' = current_y - h /\ pages' = pages]_vars
    /\ [](ppc \in {"loop", "done"} =>
            /\ current_y >= BottomMargin
            /\ current_y = PageHeight - TopMargin
                               - SumHeights(current_page_content)
            /\ \A i \in DOMAIN pages :
                   SumHeights(pages[i].lines)
                       <= PageHeight - TopMargin - BottomMargin)

\* a page has just been closed in the loop and the fragment that did not
\* fit starts the next page
C7_Witness ==
    /\ ppc = "loop"
    /\ Len(pages) >= 1
    /\ Len(current_page_content) = 1
    /\ SumHeights(pages[Len(pages)].lines) + LineHeight(current_page_content[1])
           > PageHeight - TopMargin - BottomMargin

\* C12: the content pages are numbered 1, 2, ... in the order they are
\* rendered, the cover page has no number and takes none, and no content
\* page without fragments is rendered.
C12_PagesNumberedFromOne ==
    ppc \in {"loop", "done"} =>
        /\ page_number = Len(pages) + 1
        /\ \A i \in DOMAIN pages :
               pages[i].page_number = i /\ pages[i].lines # <<>>
        /\ Len(pdf) = Len(pages) + 1
        /\ pdf[1] = SavedPage("cover", <<>>, 0)
        /\ \A i \in 2..Len(pdf) :
               pdf[i] = SavedPage("content", pages[i - 1].lines,
                                  IF include_page_numbers THEN i - 1 ELSE 0)

\* three captioned content pages have been saved after the cover page
C12_Witness ==
    /\ ppc = "done"
    /\ include_page_numbers
    /\ Len(pdf) >= 4
    /\ pdf[4].caption = 3

----------------------------------------------------------------------------
(* The wrapping loop applied to the blocks parse_lines has returned *)

\* most blocks in parsed_lines
MaxBlocks == 2
\* most words in a block's text
MaxWords == 3
\* length of each word of a block's text: just under half of the base
\* budget, so that two words fit a paragraph line and one a heading line
WordLen == BaseMaxChars \div 2 - 1

\* the j-th word of a block's text
LayoutWord(j) ==
    [i \in 1..WordLen |-> IF j % 3 = 1 THEN "a" ELSE IF j % 3 = 2 THEN "b" ELSE "c"]

\* a text of n words
LayoutText(n) == JoinWords([j \in 1..n |-> LayoutWord(j)])

\* the blocks parse_lines returns: the blank block, a heading of any text
\* (a lone '#' gives the empty one), a list item or a paragraph of at least
\* one word
LayoutBlocks ==
    {Styled(<<>>, 12, "normal", 0, 5)}
    \cup {Styled(LayoutText(n), HeadingSize(level)[1], HeadingSize(level)[2],
                 0, HeadingSize(level)[3]) :
              n \in 0..MaxWords, level \in 1..3}
    \cup {Styled(LayoutText(n), 12, "normal", 3, 12) : n \in 1..MaxWords}
    \cup {Styled(LayoutText(n), 12, "normal", 0, 13) : n \in 1..MaxWords}

InitLayout ==
    /\ parsed_lines \in UNION {[1..n -> LayoutBlocks] : n \in 1..MaxBlocks}
    /\ lidx = 1
    /\ base_max_chars = BaseMaxChars
    /\ max_chars = 0
    /\ lpc = "layout"
    /\ FlowIdle
    /\ WrapIdle
    /\ PageIdle
    /\ IoIdle

NextLayout ==
    \/ LayoutBlank
    \/ LayoutBlock
    \/ LayoutDone

SpecLayout == InitLayout /\ [][NextLayout]_vars

\* C11: the k >= 1 fragments a block adds to wrapped carry the block's
\* fontsize, weight and indent; the first k - 1 carry the multiplier 1.0 and
\* the last the block's own; no block and no earlier fragment is changed.
C11_ContinuationMultiplier ==
    [][(lpc = "layout" /\ lidx' = lidx + 1) =>
        LET block == parsed_lines[lidx]
            k == Len(wrapped') - Len(wrapped)
        IN  /\ k >= 1
            /\ SubSeq(wrapped', 1, Len(wrapped)) = wrapped
            /\ parsed_lines' = parsed_lines
            /\ \A j \in 1..k :
                   LET frag == wrapped'[Len(wrapped) + j]
                   IN  /\ frag.fontsize = block.fontsize
                       /\ frag.weight = block.weight
                       /\ frag.indent = block.indent
                       /\ frag.line_height_multiplier =
                              IF j < k THEN 10
                              ELSE block.line_height_multiplier]_vars

\* a first block of three fragments and a second of two have been wrapped
C11_Witness ==
    /\ lpc = "wrapped"
    /\ Len(parsed_lines) = 2
    /\ Len(wrapped) = 5
    /\ wrapped[1].line_height_multiplier = 10
    /\ wrapped[2].line_height_multiplier = 10
    /\ wrapped[3].line_height_multiplier = 20
    /\ wrapped[4].line_height_multiplier = 10
    /\ wrapped[5].line_height_multiplier = 13

----------------------------------------------------------------------------
(* Classification of ordered items, headings and paragraphs *)

\* the line, after its leading whitespace, is digits, then '.' or ')', then
\* whitespace
DotOrParenItem(s) ==
    LET t == LStrip(s)
        n == LeadingCount(t, Digits)
    IN  /\ n >= 1
        /\ Len(t) >= n + 2
        /\ t[n + 1] \in {".", ")"}
        /\ t[n + 2] \in Whitespace

\* the digit run of such a line
DigitRun(s) == LET t == LStrip(s) IN SubSeq(t, 1, LeadingCount(t, Digits))

\* what follows the marker and its whitespace
AfterMarker(s) ==
    LET t == LStrip(s) IN LStrip(From(t, LeadingCount(t, Digits) + 1))

\* the loop of the flow track handles a line that is not blank, not a
\* heading and not an unordered item
FlowStepPastUnordered ==
    /\ InFlowLoop /\ idx' = idx + 1
    /\ FlowLine # <<>>
    /\ ~IsHeading(FlowLine)
    /\ ~StartsWithMarker(LStrip(FlowLine))

\* the same for parse_lines
ParseStepPastUnordered ==
    /\ InParseLoop /\ idx' = idx + 1
    /\ ParseLine # <<>>
    /\ ~IsHeading(LStrip(ParseLine))
    /\ ~StartsWithMarker(LStrip(ParseLine))

\* C13: a line past the blank, heading and unordered rules becomes an
\* ordered item, with the digit run as ordinal and the remainder as text,
\* exactly if it is whitespace, digits, '.' or ')', whitespace; any other
\* such line, '1| x' among them, becomes a paragraph.  In both tracks.
C13_OrderedIffDotOrParen ==
    [][/\ FlowStepPastUnordered =>
              LET e == content_lines'[Len(content_lines')]
              IN  IF DotOrParenItem(FlowLine)
                  THEN e = ListItem(DigitRun(FlowLine) \o <<".", " ">>
                                    \o _escape_xml(AfterMarker(FlowLine)))
                  ELSE e.tag = "text:p"
       /\ ParseStepPastUnordered =>
              LET b == parsed'[Len(parsed')]
              IN  IF DotOrParenItem(ParseLine)
                  THEN b = Styled(DigitRun(ParseLine) \o <<".", " ">>
                                  \o AfterMarker(ParseLine),
                                  12, "normal", 3, 12)
                  ELSE b.indent = 0 /\ b.line_height_multiplier = 13]_vars

\* the line is d, then the marker m, one space and a non-empty text with no
\* whitespace at its ends, d being its first n characters
MarkedLine(s, n, m) ==
    /\ n >= 1 /\ Len(s) >= n + 3
    /\ AllIn(s, 1, n, Digits)
    /\ s[n + 1] = m
    /\ s[n + 2] = " "
    /\ Strip(From(s, n + 2)) = From(s, n + 2)

\* C14: the lines 'd. t' and 'd) t' both become an ordered item displayed
\* as 'd. t', in the flow track (t escaped) and in the fixed-layout track.
C14_BothMarkersNormalised ==
    [][\A n \in 1..MaxTextLen, m \in {".", ")"} :
        /\ (InFlowLoop /\ idx' = idx + 1 /\ MarkedLine(lines[idx], n, m)) =>
               content_lines'[Len(content_lines')] =
                   ListItem(SubSeq(lines[idx], 1, n) \o <<".", " ">>
                            \o _escape_xml(From(lines[idx], n + 2)))
        /\ (InParseLoop /\ idx' = idx + 1 /\ MarkedLine(lines[idx], n, m)) =>
               parsed'[Len(parsed')] =
                   Styled(SubSeq(lines[idx], 1, n) \o <<".", " ">>
                          \o From(lines[idx], n + 2),
                          12, "normal", 3, 12)]_vars

\* '1) a' has gone through both tracks
C14_Witness ==
    /\ pc = "done"
    /\ text = <<"1", ")", " ", "a">>
    /\ content_lines =
           <<ListOpen("L2"), ListItem(<<"1", ".", " ", "a">>), ListClose>>
    /\ parsed = <<Styled(<<"1", ".", " ", "a">>, 12, "normal", 3, 12)>>

\* C15: a line that starts with '#' becomes a heading whose level is the
\* number of leading '#' and whose text is the remainder without surrounding
\* whitespace, also when that text is empty; levels 1 and 2 have their own
\* style and every level from 3 on has the style of level 3.
C15_HeadingLevelAndStyle ==
    [][LET level == LeadingCount(lines[idx], {"#"})
           rest == Strip(From(lines[idx], level))
       IN  /\ (InFlowLoop /\ idx' = idx + 1 /\ level >= 1) =>
                  /\ Len(content_lines') = Len(content_lines) + 1
                  /\ content_lines'[Len(content_lines')] =
                         HeadingElement(
                             IF level = 1 THEN "Heading_20_1"
                             ELSE IF level = 2 THEN "Heading_20_2"
                             ELSE "Heading_20_3",
                             level, _escape_xml(rest))
           /\ (InParseLoop /\ idx' = idx + 1 /\ level >= 1) =>
                  /\ Len(parsed') = Len(parsed) + 1
                  /\ parsed'[Len(parsed')] =
                         IF level = 1 THEN Styled(rest, 18, "bold", 0, 20)
                         ELSE IF level = 2 THEN Styled(rest, 16, "bold", 0, 18)
                         ELSE Styled(rest, 14, "bold", 0, 16)]_vars

\* a line of four '#' and nothing else has gone through both tracks
C15_Witness ==
    /\ pc = "done"
    /\ text = <<"#", "#", "#", "#">>
    /\ content_lines = <<HeadingElement("Heading_20_3", 4, <<>>)>>
    /\ parsed = <<Styled(<<>>, 14, "bold", 0, 16)>>

\* C16: a line of '#' followed at once by a list marker is a heading whose
\* text begins with the marker; no list item and no list container is added
\* for it.
C16_HeadingBeforeList ==
    [][LET level == LeadingCount(lines[idx], {"#"})
           rest == From(lines[idx], level)
           marked == level >= 1 /\ (StartsWithMarker(rest) \/ DotOrParenItem(rest))
       IN  /\ (InFlowLoop /\ idx' = idx + 1 /\ marked) =>
                  /\ Len(content_lines') = Len(content_lines) + 1
                  /\ content_lines'[Len(content_lines')].tag = "text:h"
                  /\ content_lines'[Len(content_lines')].level = level
                  /\ content_lines'[Len(content_lines')].text =
                         _escape_xml(Strip(rest))
                  /\ ~in_list'
           /\ (InParseLoop /\ idx' = idx + 1 /\ marked) =>
                  /\ parsed'[Len(parsed')].text = Strip(rest)
                  /\ parsed'[Len(parsed')].weight = "bold"
                  /\ parsed'[Len(parsed')].indent = 0]_vars

\* '#- a' has gone through both tracks
C16_Witness ==
    /\ pc = "done"
    /\ text = <<"#", "-", " ", "a">>
    /\ content_lines = <<HeadingElement("Heading_20_1", 1, <<"-", " ", "a">>)>>
    /\ parsed = <<Styled(<<"-", " ", "a">>, 18, "bold", 0, 20)>>

\* C17: the text of a paragraph is its line without leading and trailing
\* whitespace, in the flow track (escaped) and in parse_lines.
C17_ParagraphTrimmed ==
    [][/\ (FlowStepPastUnordered /\ ~OrderedTest(FlowLine)) =>
              content_lines'[Len(content_lines')] =
                  Paragraph(_escape_xml(Strip(lines[idx])))
       /\ (ParseStepPastUnordered /\ NumberSplits(LStrip(ParseLine)) = {}) =>
              parsed'[Len(parsed')] =
                  Styled(Strip(lines[idx]), 12, "normal", 0, 13)]_vars

\* C18: every block parse_lines adds has the style its kind and level give
\* it: headings (18, bold, 0, 2.0), (16, bold, 0, 1.8) and, from level 3 on,
\* (14, bold, 0, 1.6); list items (12, normal, 0.03, 1.2); paragraphs
\* (12, normal, 0, 1.3); blank lines (12, normal, 0, 0.5) with empty text.
C18_StyleTable ==
    [][(InParseLoop /\ idx' = idx + 1) =>
        LET b == parsed'[Len(parsed')]
            stripped == LStrip(ParseLine)
            level == LeadingCount(stripped, {"#"})
            style == <<b.fontsize, b.weight, b.indent, b.line_height_multiplier>>
        IN  /\ Len(parsed') = Len(parsed) + 1
            /\ IF ParseLine = <<>>
               THEN style = <<12, "normal", 0, 5>> /\ b.text = <<>>
               ELSE IF level = 1 THEN style = <<18, "bold", 0, 20>>
               ELSE IF level = 2 THEN style = <<16, "bold", 0, 18>>
               ELSE IF level >= 3 THEN style = <<14, "bold", 0, 16>>
               ELSE IF StartsWithMarker(stripped) \/ NumberSplits(stripped) # {}
               THEN style = <<12, "normal", 3, 12>>
               ELSE style = <<12, "normal", 0, 13>>]_vars

\* a heading, an unordered item, an ordered item and a paragraph have been
\* parsed
C18_Witness ==
    /\ pc = "done"
    /\ text = JoinLines(<<(<<"#", " ", "a">>), (<<"-", " ", "a">>),
                          (<<"1", ".", " ", "a">>), (<<"a">>)>>)
    /\ Len(parsed) = 4
    /\ parsed[1].fontsize = 18 /\ parsed[1].line_height_multiplier = 20
    /\ parsed[2].indent = 3 /\ parsed[2].line_height_multiplier = 12
    /\ parsed[3].indent = 3 /\ parsed[3].line_height_multiplier = 12
    /\ parsed[4].indent = 0 /\ parsed[4].line_height_multiplier = 13

----------------------------------------------------------------------------
(* The budget expression and the wrapping of one block, for each value of   *)
(* base_max_chars up to MaxBaseChars                                        *)

\* largest base_max_chars tried
MaxBaseChars == 120

\* one block of each style, with no text and with two words
BudgetBlocks ==
    {Styled(t, st[1], st[2], st[3], st[4]) :
        t \in {<<>>, <<"a", " ", "b">>}, st \in BlockStyles}

InitBudget ==
    /\ base_max_chars \in 1..MaxBaseChars
    /\ parsed_lines \in {<<b>> : b \in BudgetBlocks}
    /\ lidx = 1
    /\ max_chars = 0
    /\ lpc = "layout"
    /\ FlowIdle
    /\ WrapIdle
    /\ PageIdle
    /\ IoIdle

SpecBudget == InitBudget /\ [][NextLayout]_vars

\* a block with text has been wrapped
BlockWrapped == lidx = 2 /\ parsed_lines[1].text # <<>>

\* C19: the budget of a block is the floor of
\* base_max_chars * (12 / fontsize) * ((available_width - indent) /
\* available_width); with base_max_chars 120 a level-1 heading gets 80.
C19_BudgetFormula ==
    BlockWrapped =>
        LET fs == parsed_lines[1].fontsize
            indent == parsed_lines[1].indent
            num == base_max_chars * 12 * (100 * AvailableWidth - PageWidth * indent)
            den == fs * 100 * AvailableWidth
        IN  /\ max_chars * den <= num
            /\ num < (max_chars + 1) * den
            /\ (base_max_chars = 120 /\ fs = 18 /\ indent = 0) => max_chars = 80

\* a level-1 heading has been wrapped with base_max_chars 120
C19_Witness ==
    /\ lpc = "wrapped"
    /\ BlockWrapped
    /\ base_max_chars = 120
    /\ parsed_lines[1].fontsize = 18
    /\ max_chars = 80
    /\ wrapped = <<Styled(<<"a", " ", "b">>, 18, "bold", 0, 20)>>

----------------------------------------------------------------------------
(* Further properties of wrap_text_simple, of the two classifiers, of       *)
(* _escape_xml and of render_page                                           *)

\* C26: wrapping is greedy: for consecutive fragments f and g, f followed by
\* a space and the first word of g would not have fitted the budget.
C26_GreedyWrap ==
    wpc = "done" =>
        \A i \in 1..(Len(wrap_lines) - 1) :
            Len(wrap_lines[i]) + 1 + Len(SplitWords(wrap_lines[i + 1])[1])
                > max_chars_per_line

\* wrap has returned a fragment of two words followed by another fragment
C26_Witness ==
    /\ wpc = "done"
    /\ Len(wrap_lines) >= 2
    /\ Len(SplitWords(wrap_lines[1])) >= 2
    /\ Len(wrap_lines[1]) < max_chars_per_line

\* an element of the body that stands for a line: not a container tag
IsLineElement(e) == e.tag \notin {"text:list", "/text:list"}

\* the kind, with the heading level up to 3, that an element of the flow
\* body shows
ElementKind(e) ==
    IF e.tag = "text:p/" THEN <<"Blank", 0>>
    ELSE IF e.tag = "text:h"
    THEN <<"Heading", IF e.level < 3 THEN e.level ELSE 3>>
    ELSE IF e.tag = "text:list-item"
    THEN IF StartsWith(e.text, Bullet) THEN <<"Unordered", 0>>
         ELSE <<"Ordered", 0>>
    ELSE <<"Paragraph", 0>>

\* the kind that a block of parse_lines shows
BlockKind(b) ==
    IF b.line_height_multiplier = 5 THEN <<"Blank", 0>>
    ELSE IF b.weight = "bold"
    THEN <<"Heading", IF b.fontsize = 18 THEN 1
                      ELSE IF b.fontsize = 16 THEN 2 ELSE 3>>
    ELSE IF b.indent = 3
    THEN IF StartsWith(b.text, Bullet) THEN <<"Unordered", 0>>
         ELSE <<"Ordered", 0>>
    ELSE <<"Paragraph", 0>>

\* C27: for every text, the i-th line has the same kind, and as a heading
\* the same level, in the flow body and in the blocks of parse_lines.
C27_TracksClassifyAlike ==
    pc = "done" =>
        LET elements == SelectSeq(content_lines, IsLineElement)
        IN  /\ Len(elements) = Len(parsed)
            /\ \A i \in DOMAIN parsed :
                   ElementKind(elements[i]) = BlockKind(parsed[i])

\* C29: every page render_page is called with is saved with all of its
\* fragments: the break of its loop is taken for none of them.
C29_RenderDrawsWholePage ==
    /\ Len(pdf) = Len(pages) + 1 \/ ppc \in {"idle", "cover"}
    /\ \A i \in DOMAIN pages :
           i + 1 \in DOMAIN pdf => pdf[i + 1].lines = pages[i].lines

\* three pages have been rendered, the first two of them full
C29_Witness ==
    /\ ppc = "done"
    /\ Len(pages) = 3
    /\ Len(pdf) = 4
    /\ pdf[2].lines = pages[1].lines
    /\ Len(pages[1].lines) > Len(pages[3].lines)

----------------------------------------------------------------------------
(* create_assignment_pdf on one assignment text: the cover page, then      *)
(* parse_lines, the wrapping loop and the paginator                         *)

\* the cover page is saved first; parse_lines(assignment_text) follows
PdfCover ==
    /\ ppc = "pdf" /\ pc = "idle"
    /\ pdf' = <<SavedPage("cover", <<>>, 0)>>
    /\ ppc' = "parsing"
    /\ pc' = "odt_done"
    /\ UNCHANGED <<text, lines, idx, content_lines, in_list, list_level, parsed>>
    /\ UNCHANGED <<wrapped, pidx, current_page_content, current_y, pages,
                   page_number, include_page_numbers>>
    /\ UNCHANGED <<wrapVars, layoutVars>>
    /\ UNCHANGED ioVars

\* parsed_lines = parse_lines(assignment_text); base_max_chars is derived;
\* wrapped = []
PdfWrapStart ==
    /\ ppc = "parsing" /\ pc = "done"
    /\ parsed_lines' = parsed
    /\ lidx' = 1
    /\ base_max_chars' = BaseMaxChars
    /\ wrapped' = <<>>
    /\ lpc' = "layout"
    /\ ppc' = "wrapping"
    /\ UNCHANGED max_chars
    /\ UNCHANGED <<pidx, current_page_content, current_y, pages, page_number,
                   pdf, include_page_numbers>>
    /\ UNCHANGED <<flowVars, wrapVars>>
    /\ UNCHANGED ioVars

\* page_number = 1; current_page_content = []; current_y = 1.0 - top_margin
PdfPaginateStart ==
    /\ ppc = "wrapping" /\ lpc = "wrapped"
    /\ page_number' = 1
    /\ current_page_content' = <<>>
    /\ current_y' = TopY
    /\ pidx' = 1
    /\ ppc' = "loop"
    /\ UNCHANGED <<wrapped, pages, pdf, include_page_numbers>>
    /\ UNCHANGED <<flowVars, wrapVars, layoutVars>>
    /\ UNCHANGED ioVars

\* number of heading lines of the long text: one more than fit a page
MaxHeadingLines == 17

\* the text of MaxHeadingLines lines '#'
LongText == JoinLines([i \in 1..MaxHeadingLines |-> <<"#">>])

\* texts without any visible character
BlankTexts == UNION {[1..n -> {" ", "\n"}] : n \in 0..MaxTextLen}

PdfTexts == BlankTexts \cup SampleTexts \cup {EndToEndText, LongText}

InitPdf ==
    /\ text \in PdfTexts
    /\ lines = <<>> /\ idx = 0 /\ content_lines = <<>>
    /\ in_list = FALSE /\ list_level = 0 /\ parsed = <<>> /\ pc = "idle"
    /\ wrapped = <<>> /\ pidx = 0 /\ current_page_content = <<>>
    /\ current_y = 0 /\ pages = <<>> /\ page_number = 0 /\ pdf = <<>>
    /\ include_page_numbers \in BOOLEAN
    /\ ppc = "pdf"
    /\ WrapIdle
    /\ LayoutIdle
    /\ IoIdle

NextPdf ==
    \/ PdfCover
    \/ ParseLinesStart
    \/ ParseBlank
    \/ ParseHeading
    \/ ParseUnordered
    \/ ParseOrdered
    \/ ParseParagraph
    \/ ParseLinesReturn
    \/ PdfWrapStart
    \/ LayoutBlank
    \/ LayoutBlock
    \/ LayoutDone
    \/ PdfPaginateStart
    \/ PaginateBreak
    \/ PaginateAppend
    \/ PaginateFinal

SpecPdf == InitPdf /\ [][NextPdf]_vars

\* C21 as stated: for a text that is empty or only whitespace the document
\* is the cover page and one content page on which no text at all is drawn.
C21_EmptyTextDrawsNothing ==
    (ppc = "done" /\ Strip(text) = <<>>) =>
        /\ Len(pdf) = 2
        /\ pdf[1].kind = "cover" /\ pdf[2].kind = "content"
        /\ DrawnLines(pdf[2]) = <<>>
        /\ pdf[2].caption = 0

\* C21 amended: for such a text the document is the cover page and one
\* content page; its only fragment is the empty one of the blank line, for
\* which no text is drawn; the page carries the caption "Page 1" exactly if
\* include_page_numbers is set.
C21_EmptyTextOnePage ==
    (ppc = "done" /\ Strip(text) = <<>>) =>
        /\ Len(pdf) = 2
        /\ pdf[1].kind = "cover" /\ pdf[2].kind = "content"
        /\ pdf[2].lines = <<Styled(<<>>, 12, "normal", 0, 5)>>
        /\ DrawnLines(pdf[2]) = <<>>
        /\ pdf[2].caption = IF include_page_numbers THEN 1 ELSE 0

\* the empty text has been converted with page numbers
C21_Witness ==
    /\ ppc = "done"
    /\ text = <<>>
    /\ include_page_numbers
    /\ Len(pdf) = 2
    /\ pdf[2].caption = 1

----------------------------------------------------------------------------
(* create_assignment_odt: the parts are written to a temporary directory,  *)
(* packed into the archive, and the directory is left with the 'with'      *)
(* block, on return and on any exception                                   *)

FieldNames ==
    {"title", "university_name", "name", "registration_number",
     "instructor_name", "semester"}

\* tempfile.TemporaryDirectory().__exit__: the directory is removed
ExitTempDirLeaking == "exists"
ExitTempDir == "removed"

\* compress_type of the 'mimetype' entry
MimetypeCompressionDefault == "ZIP_DEFLATED"
MimetypeCompression == "ZIP_STORED"

\* a file in the temporary directory
Part(name, data) == [name |-> name, data |-> data]

\* the arcnames in the order of the odt_zip.write calls
ZipOrder ==
    <<"mimetype", "META-INF/manifest.xml", "meta.xml", "styles.xml",
      "content.xml">>

\* the file of the temporary directory with the given name
StagedPart(name) == CHOOSE q \in {staged[i] : i \in DOMAIN staged} : q.name = name

\* odt_zip.write(path, arcname[, compress_type]) for the i-th call
ZipEntry(i) ==
    [name |-> ZipOrder[i],
     compress_type |-> IF i = 1 THEN MimetypeCompression ELSE "ZIP_DEFLATED",
     data |-> StagedPart(ZipOrder[i]).data]

\* with tempfile.TemporaryDirectory() as temp_dir
OdtEnter ==
    /\ opc = "enter"
    /\ temp_dir' = "exists"
    /\ opc' = "manifest"
    /\ UNCHANGED <<fields, filename, staged, content_xml, odt_zip, saved_file>>
    /\ UNCHANGED <<flowVars, wrapVars, pageVars, layoutVars>>
    /\ UNCHANGED <<extractVars, llmVars, sessionVars>>

\* os.makedirs(meta_inf_dir); manifest.xml is written
OdtWriteManifest ==
    /\ opc = "manifest"
    /\ staged' = Append(staged, Part("META-INF/manifest.xml", "manifest_content"))
    /\ opc' = "meta"
    /\ UNCHANGED <<fields, filename, temp_dir, content_xml, odt_zip, saved_file>>
    /\ UNCHANGED <<flowVars, wrapVars, pageVars, layoutVars>>
    /\ UNCHANGED <<extractVars, llmVars, sessionVars>>

\* meta.xml is written with the escaped title, creator and subject
OdtWriteMeta ==
    /\ opc = "meta"
    /\ staged' =
           Append(staged,
                  Part("meta.xml",
                       [title |-> _escape_xml(fields.title),
                        creator |-> _escape_xml(fields.name),
                        subject |-> _escape_xml(fields.title)
                                    \o <<" ", "-", " ">>
                                    \o _escape_xml(fields.university_name)]))
    /\ opc' = "styles"
    /\ UNCHANGED <<fields, filename, temp_dir, content_xml, odt_zip, saved_file>>
    /\ UNCHANGED <<flowVars, wrapVars, pageVars, layoutVars>>
    /\ UNCHANGED <<extractVars, llmVars, sessionVars>>

\* styles.xml is written
OdtWriteStyles ==
    /\ opc = "styles"
    /\ staged' = Append(staged, Part("styles.xml", "styles_content"))
    /\ opc' = "body"
    /\ UNCHANGED <<fields, filename, temp_dir, content_xml, odt_zip, saved_file>>
    /\ UNCHANGED <<flowVars, wrapVars, pageVars, layoutVars>>
    /\ UNCHANGED <<extractVars, llmVars, sessionVars>>

\* content_body = _markdown_to_odt_content(assignment_text) is called
OdtConvertBody ==
    /\ opc = "body" /\ pc = "idle"
    /\ pc' = "start"
    /\ opc' = "content"
    /\ UNCHANGED <<text, lines, idx, content_lines, in_list, list_level, parsed>>
    /\ UNCHANGED <<fields, filename, temp_dir, staged, content_xml, odt_zip,
                   saved_file>>
    /\ UNCHANGED <<wrapVars, pageVars, layoutVars>>
    /\ UNCHANGED <<extractVars, llmVars, sessionVars>>

\* content_xml is built from the escaped cover fields and the body, and
\* content.xml is written
OdtWriteContent ==
    /\ opc = "content" /\ pc = "odt_done"
    /\ content_xml' =
           [title |-> _escape_xml(fields.title),
            university_name |-> _escape_xml(fields.university_name),
            name |-> _escape_xml(fields.name),
            registration_number |-> _escape_xml(fields.registration_number),
            instructor_name |-> _escape_xml(fields.instructor_name),
            semester |-> _escape_xml(fields.semester),
            body |-> content_lines]
    /\ staged' = Append(staged, Part("content.xml", content_xml'))
    /\ opc' = "mimetype"
    /\ UNCHANGED <<fields, filename, temp_dir, odt_zip, saved_file>>
    /\ UNCHANGED <<flowVars, wrapVars, pageVars, layoutVars>>
    /\ UNCHANGED <<extractVars, llmVars, sessionVars>>

\* the mimetype file is written
OdtWriteMimetype ==
    /\ opc = "mimetype"
    /\ staged' = Append(staged, Part("mimetype", "mimetype_content"))
    /\ opc' = "zip"
    /\ UNCHANGED <<fields, filename, temp_dir, content_xml, odt_zip, saved_file>>
    /\ UNCHANGED <<flowVars, wrapVars, pageVars, layoutVars>>
    /\ UNCHANGED <<extractVars, llmVars, sessionVars>>

\* the next odt_zip.write call; after the last one the archive is closed
OdtZipWrite ==
    /\ opc = "zip"
    /\ odt_zip' = Append(odt_zip, ZipEntry(Len(odt_zip) + 1))
    /\ opc' = IF Len(odt_zip') = Len(ZipOrder) THEN "output" ELSE "zip"
    /\ UNCHANGED <<fields, filename, temp_dir, staged, content_xml, saved_file>>
    /\ UNCHANGED <<flowVars, wrapVars, pageVars, layoutVars>>
    /\ UNCHANGED <<extractVars, llmVars, sessionVars>>

\* odt_data = buffer.getvalue(); the file is written if filename is given;
\* return odt_data leaves the with block
OdtReturn ==
    /\ opc = "output"
    /\ saved_file' = filename
    /\ temp_dir' = ExitTempDir
    /\ opc' = "returned"
    /\ UNCHANGED <<fields, filename, staged, content_xml, odt_zip>>
    /\ UNCHANGED <<flowVars, wrapVars, pageVars, layoutVars>>
    /\ UNCHANGED <<extractVars, llmVars, sessionVars>>

\* an exception of the file system at any step that uses it: creating the
\* directory, writing a part, writing to the archive, writing the output
\* file; the with block is left on the way out
OdtRaise ==
    /\ opc \in {"enter", "manifest", "meta", "styles", "content", "mimetype",
                "zip", "output"}
    /\ opc = "content" => pc = "odt_done"
    /\ opc = "output" => filename
    /\ temp_dir' = IF temp_dir = "exists" THEN ExitTempDir ELSE temp_dir
    /\ opc' = "raised"
    /\ UNCHANGED <<fields, filename, staged, content_xml, odt_zip, saved_file>>
    /\ UNCHANGED <<flowVars, wrapVars, pageVars, layoutVars>>
    /\ UNCHANGED <<extractVars, llmVars, sessionVars>>

\* the longest payload of the flow document's inputs
MaxEscLen == 3

\* the characters _escape_xml replaces, and two it leaves alone
OdtAlphabet == {"&", "<", ">", "\"", "'", "a", ";"}

OdtPayloads == UNION {[1..n -> OdtAlphabet] : n \in 0..MaxEscLen}

\* an assignment text with the payload as a heading, an unordered item, an
\* ordered item and, after a blank line, a paragraph
OdtText(e) ==
    JoinLines(<<<<"#", " ">> \o e, <<"-", " ">> \o e, <<"1", ".", " ">> \o e,
                <<>>, e>>)

\* a letter that tells the cover fields apart
FieldTag(f) ==
    CASE f = "title" -> "T"
      [] f = "university_name" -> "U"
      [] f = "name" -> "N"
      [] f = "registration_number" -> "R"
      [] f = "instructor_name" -> "I"
      [] f = "semester" -> "S"

\* create_assignment_odt(assignment_text, title, ..., filename) is called
InitOdt ==
    /\ \E e \in OdtPayloads :
          /\ text = OdtText(e)
          /\ fields = [f \in FieldNames |-> Append(e, FieldTag(f))]
    /\ filename \in BOOLEAN
    /\ temp_dir = "none" /\ staged = <<>> /\ content_xml = <<>>
    /\ odt_zip = <<>> /\ saved_file = FALSE /\ opc = "enter"
    /\ lines = <<>> /\ idx = 0 /\ content_lines = <<>>
    /\ in_list = FALSE /\ list_level = 0 /\ parsed = <<>> /\ pc = "idle"
    /\ WrapIdle /\ PageIdle /\ LayoutIdle
    /\ ExtractIdle /\ LlmIdle /\ SessionIdle

NextOdt ==
    \/ OdtEnter
    \/ OdtWriteManifest
    \/ OdtWriteMeta
    \/ OdtWriteStyles
    \/ OdtConvertBody
    \/ MarkdownToOdtStart
    \/ FlowBlank
    \/ FlowHeading
    \/ FlowUnordered
    \/ FlowOrdered
    \/ FlowParagraph
    \/ MarkdownToOdtReturn
    \/ OdtWriteContent
    \/ OdtWriteMimetype
    \/ OdtZipWrite
    \/ OdtReturn
    \/ OdtRaise

SpecOdt == InitOdt /\ [][NextOdt]_vars

\* the arcnames of the archive, in the order written
ArchiveNames == [i \in DOMAIN odt_zip |-> odt_zip[i].name]

\* C22: in every archive create_assignment_odt returns, 'mimetype' is the
\* first entry written and is stored without compression, and it is followed
\* by exactly manifest.xml, meta.xml, styles.xml and content.xml, each once;
\* while the archive is written 'mimetype' is never preceded by another entry
C22_MimetypeFirstStored ==
    /\ odt_zip # <<>> =>
          /\ odt_zip[1].name = "mimetype"
          /\ odt_zip[1].compress_type = "ZIP_STORED"
    /\ opc = "returned" =>
          /\ Len(odt_zip) = 5
          /\ {ArchiveNames[i] : i \in 2..5} =
                 {"META-INF/manifest.xml", "meta.xml", "styles.xml",
                  "content.xml"}
          /\ \A i, j \in 1..5 : ArchiveNames[i] = ArchiveNames[j] => i = j
          /\ \A i \in 1..5 : odt_zip[i].data = StagedPart(odt_zip[i].name).data

C22_Witness ==
    /\ opc = "returned" /\ Len(odt_zip) = 5
    /\ odt_zip[5].name = "content.xml"
    /\ odt_zip[5].data.title = <<"&", "l", "t", ";", "T">>

\* C23: the temporary directory does not outlive the call: after the normal
\* return and after every error exit the directory is gone
C23_TempDirRemoved ==
    opc \in {"returned", "raised"} => temp_dir # "exists"

\* an error exit while the archive is built, with the directory removed
C23_Witness ==
    /\ opc = "raised" /\ temp_dir = "removed"
    /\ Len(odt_zip) \in 1..4

\* the five entities and the characters they stand for
Entities ==
    {<<<<"&", "a", "m", "p", ";">>, "&">>,
     <<<<"&", "l", "t", ";">>, "<">>,
     <<<<"&", "g", "t", ";">>, ">">>,
     <<<<"&", "q", "u", "o", "t", ";">>, "\"">>,
     <<<<"&", "a", "p", "o", "s", ";">>, "'">>}

\* the entity s starts with, if any
EntityAt(s) == {en \in Entities : StartsWith(s, en[1])}

\* s with every entity replaced by its character, left to right
RECURSIVE DecodeXml(_)
DecodeXml(s) ==
    IF s = <<>> THEN <<>>
    ELSE IF EntityAt(s) # {}
    THEN LET en == CHOOSE x \in EntityAt(s) : TRUE
         IN  <<en[2]>> \o DecodeXml(From(s, Len(en[1])))
    ELSE <<Head(s)>> \o DecodeXml(Tail(s))

\* no raw '<', '>', '"' or apostrophe, and every '&' starts an entity
WellEscaped(s) ==
    \A i \in 1..Len(s) :
        /\ s[i] \notin {"<", ">", "\"", "'"}
        /\ s[i] = "&" => EntityAt(From(s, i - 1)) # {}

\* the payload of the document being written
OdtPayload == SubSeq(fields.title, 1, Len(fields.title) - 1)

\* the texts of the body's elements that carry a line, without the bullet
\* or the number the converter puts in front
BodyTexts ==
    LET es == SelectSeq(content_xml.body, LAMBDA el : el.text # <<>>)
    IN  [i \in DOMAIN es |->
            IF StartsWith(es[i].text, Bullet) THEN From(es[i].text, Len(Bullet))
            ELSE IF es[i].tag = "text:list-item" THEN From(es[i].text, 3)
            ELSE es[i].text]

\* C28: every caller-supplied text of the flow document (the cover fields
\* and the heading, list-item and paragraph text) is written escaped exactly
\* once: what is written has no raw '<', '>', '"' or apostrophe, every '&'
\* in it starts one of the five entities, and decoding the entities once
\* gives back the original string
C28_EscapedExactlyOnce ==
    content_xml # <<>> =>
        /\ \A f \in FieldNames :
              /\ WellEscaped(content_xml[f])
              /\ DecodeXml(content_xml[f]) = fields[f]
        /\ OdtPayload # <<>> =>
              /\ Len(BodyTexts) = 4
              /\ \A i \in 1..4 :
                    /\ WellEscaped(BodyTexts[i])
                    /\ DecodeXml(BodyTexts[i]) = OdtPayload

\* a payload with an ampersand, an apostrophe and a semicolon was written
C28_Witness ==
    /\ opc = "returned"
    /\ OdtPayload = <<"&", "'", ";">>
    /\ content_xml.name =
           <<"&", "a", "m", "p", ";", "&", "a", "p", "o", "s", ";", ";", "N">>
    /\ Len(BodyTexts) = 4
    /\ BodyTexts[2] = <<"&", "a", "m", "p", ";", "&", "a", "p", "o", "s", ";", ";">>

----------------------------------------------------------------------------
(* extract_pdf_text: every page is read inside its own try block *)

\* most pages of a document
MaxPages == 3

\* what page.extract_text() gives: an exception, or a text that may be empty
ExtractOutcomes == {"raise", <<>>, <<"a">>, <<"b">>}

\* a page of the reader: what reader.decrypt("") does while the loop is at
\* the page, and what page.extract_text() does
ReaderPages == [decrypt : {"ok", "raise"}, extract : ExtractOutcomes]

\* the loop body raises at the page
PageRaises(page) ==
    \/ is_encrypted /\ page.decrypt = "raise"
    \/ page.extract = "raise"

\* the calls of reader.decrypt("") the loop body makes at one page
DecryptCalls == IF is_encrypted THEN 1 ELSE 0

\* except Exception: continue
AfterPageErrorFatal == "raised"
AfterPageError == "loop"

\* "\n\n".join(ts)
RECURSIVE JoinBlankLine(_)
JoinBlankLine(ts) ==
    IF Len(ts) = 0 THEN <<>>
    ELSE IF Len(ts) = 1 THEN ts[1]
    ELSE ts[1] \o <<"\n", "\n">> \o JoinBlankLine(Tail(ts))

InExtractLoop == epc = "loop" /\ eidx <= Len(reader_pages)

\* the try block runs to its end: the text is appended if it is not empty
ExtractPage ==
    /\ InExtractLoop
    /\ ~PageRaises(reader_pages[eidx])
    /\ decrypts' = Append(decrypts, DecryptCalls)
    /\ page_texts' = IF reader_pages[eidx].extract # <<>>
                     THEN Append(page_texts, reader_pages[eidx].extract)
                     ELSE page_texts
    /\ eidx' = eidx + 1
    /\ UNCHANGED <<reader_pages, is_encrypted, extracted, epc>>
    /\ UNCHANGED <<flowVars, wrapVars, pageVars, layoutVars>>
    /\ UNCHANGED <<odtVars, llmVars, sessionVars>>

\* the decryption or the extraction raises: the handler goes on with the
\* next page
ExtractPageSkipped ==
    /\ InExtractLoop
    /\ PageRaises(reader_pages[eidx])
    /\ decrypts' = Append(decrypts, DecryptCalls)
    /\ eidx' = eidx + 1
    /\ epc' = AfterPageError
    /\ UNCHANGED <<reader_pages, is_encrypted, page_texts, extracted>>
    /\ UNCHANGED <<flowVars, wrapVars, pageVars, layoutVars>>
    /\ UNCHANGED <<odtVars, llmVars, sessionVars>>

\* return "\n\n".join(text)
ExtractReturn ==
    /\ epc = "loop" /\ eidx > Len(reader_pages)
    /\ extracted' = JoinBlankLine(page_texts)
    /\ epc' = "returned"
    /\ UNCHANGED <<reader_pages, is_encrypted, eidx, page_texts, decrypts>>
    /\ UNCHANGED <<flowVars, wrapVars, pageVars, layoutVars>>
    /\ UNCHANGED <<odtVars, llmVars, sessionVars>>

\* reader = PdfReader(BytesIO(file_data)); text = []
InitExtract ==
    /\ reader_pages \in UNION {[1..n -> ReaderPages] : n \in 0..MaxPages}
    /\ is_encrypted \in BOOLEAN
    /\ eidx = 1 /\ page_texts = <<>> /\ decrypts = <<>> /\ extracted = <<>>
    /\ epc = "loop"
    /\ FlowIdle /\ WrapIdle /\ PageIdle /\ LayoutIdle
    /\ OdtIdle /\ LlmIdle /\ SessionIdle

NextExtract ==
    \/ ExtractPage
    \/ ExtractPageSkipped
    \/ ExtractReturn

SpecExtract == InitExtract /\ [][NextExtract]_vars

\* the page was read: its decryption, if one was needed, and its extraction
\* did not raise
PageSucceeded(i) ==
    /\ is_encrypted => reader_pages[i].decrypt = "ok"
    /\ reader_pages[i].extract # "raise"

\* the texts of the pages that were read and gave some text, in page order
ReadableTexts ==
    LET ok == SelectSeq([i \in DOMAIN reader_pages |-> i],
                        LAMBDA i : PageSucceeded(i)
                                   /\ reader_pages[i].extract # <<>>)
    IN  [k \in DOMAIN ok |-> reader_pages[ok[k]].extract]

\* C24: no page makes extract_pdf_text fail: a page whose decryption or
\* extraction raises is skipped and the later pages are still processed;
\* the result is the non-empty texts of the pages that were read, in page
\* order, joined by a blank line; for an encrypted input every page gets
\* exactly one decryption attempt with the empty password
C24_PageFailuresSkipped ==
    /\ epc # "raised"
    /\ \A i \in DOMAIN decrypts :
           decrypts[i] = IF is_encrypted THEN 1 ELSE 0
    /\ epc = "returned" =>
           /\ Len(decrypts) = Len(reader_pages)
           /\ extracted = JoinBlankLine(ReadableTexts)

\* an encrypted document whose first page cannot be decrypted and whose
\* second page cannot be extracted, with two pages read after them
C24_Witness ==
    /\ epc = "returned" /\ is_encrypted
    /\ Len(reader_pages) = 3
    /\ reader_pages[1].decrypt = "raise"
    /\ reader_pages[1].extract = <<"b">>
    /\ reader_pages[2] = [decrypt |-> "ok", extract |-> <<"a">>]
    /\ reader_pages[3] = [decrypt |-> "ok", extract |-> <<"b">>]
    /\ extracted = <<"a", "\n", "\n", "b">>

----------------------------------------------------------------------------
(* run_analysis / run_assignment: the client is built, the one-node graph  *)
(* is invoked, and the field the node wrote is returned                    *)

\* longest reply of the language model
MaxReplyLen == 3

ReplyAlphabet == {" ", "\n", "a"}

\* what llm.invoke(messages) does: it raises, or it gives a response whose
\* content is a string
Replies ==
    {[raises |-> TRUE, content |-> <<>>]}
    \cup {[raises |-> FALSE, content |-> c] :
             c \in UNION {[1..n -> ReplyAlphabet] : n \in 0..MaxReplyLen}}

\* None as the value of a field of the state
NoneValue == <<"None">>

\* what the caller gets: a returned string or a raised exception
Returned(v) == [exception |-> "none", value |-> v]
Raised(e) == [exception |-> e, value |-> <<>>]

\* the field of the state the runner's node writes and the runner returns
ResultField == IF runner = "run_analysis" THEN "analysis" ELSE "assignment"

\* response.content.strip()
NodeTextUnstripped(response) == response.content
NodeText(response) == Strip(response.content)

\* result_state.get(field, "") or ""
OrEmpty(v) == IF v = NoneValue THEN <<>> ELSE v

\* llm = ChatOpenRouter(...): a key is found
LlmClientCreated ==
    /\ rpc = "start" /\ api_key
    /\ result_state' = [analysis |-> NoneValue, assignment |-> NoneValue]
    /\ rpc' = "graph"
    /\ UNCHANGED <<runner, api_key, reply, invocations, run_result>>
    /\ UNCHANGED <<flowVars, wrapVars, pageVars, layoutVars>>
    /\ UNCHANGED <<odtVars, extractVars, sessionVars>>

\* llm = ChatOpenRouter(...): no key, ValueError is raised
LlmClientRejected ==
    /\ rpc = "start" /\ ~api_key
    /\ run_result' = Raised("ValueError")
    /\ rpc' = "raised"
    /\ UNCHANGED <<runner, api_key, reply, invocations, result_state>>
    /\ UNCHANGED <<flowVars, wrapVars, pageVars, layoutVars>>
    /\ UNCHANGED <<odtVars, extractVars, sessionVars>>

\* graph.invoke runs the node: llm.invoke(messages) gives a response and the
\* stripped content is stored in the state
LlmNodeInvoke ==
    /\ rpc = "graph" /\ ~reply.raises
    /\ invocations' = invocations + 1
    /\ result_state' = [result_state EXCEPT ![ResultField] = NodeText(reply)]
    /\ rpc' = "node_done"
    /\ UNCHANGED <<runner, api_key, reply, run_result>>
    /\ UNCHANGED <<flowVars, wrapVars, pageVars, layoutVars>>
    /\ UNCHANGED <<odtVars, extractVars, sessionVars>>

\* llm.invoke(messages) raises: nothing catches the exception
LlmNodeInvokeRaises ==
    /\ rpc = "graph" /\ reply.raises
    /\ invocations' = invocations + 1
    /\ run_result' = Raised("InvokeError")
    /\ rpc' = "raised"
    /\ UNCHANGED <<runner, api_key, reply, result_state>>
    /\ UNCHANGED <<flowVars, wrapVars, pageVars, layoutVars>>
    /\ UNCHANGED <<odtVars, extractVars, sessionVars>>

\* return result_state.get(field, "") or ""
LlmReturn ==
    /\ rpc = "node_done"
    /\ run_result' = Returned(OrEmpty(result_state[ResultField]))
    /\ rpc' = "returned"
    /\ UNCHANGED <<runner, api_key, reply, invocations, result_state>>
    /\ UNCHANGED <<flowVars, wrapVars, pageVars, layoutVars>>
    /\ UNCHANGED <<odtVars, extractVars, sessionVars>>

\* run_analysis(...) or run_assignment(...) is called
InitLlm ==
    /\ runner \in {"run_analysis", "run_assignment"}
    /\ api_key \in BOOLEAN
    /\ reply \in Replies
    /\ invocations = 0 /\ result_state = <<>> /\ run_result = <<>>
    /\ rpc = "start"
    /\ FlowIdle /\ WrapIdle /\ PageIdle /\ LayoutIdle
    /\ OdtIdle /\ ExtractIdle /\ SessionIdle

NextLlm ==
    \/ LlmClientCreated
    \/ LlmClientRejected
    \/ LlmNodeInvoke
    \/ LlmNodeInvokeRaises
    \/ LlmReturn

SpecLlm == InitLlm /\ [][NextLlm]_vars

LlmCallOver == rpc \in {"returned", "raised"}

\* C25 as stated: every call invokes the language model exactly once; an
\* invocation that raises reaches the caller unchanged; on success the
\* returned string is the model's reply
C25_InvokedOnceReplyReturned ==
    LlmCallOver =>
        /\ invocations = 1
        /\ reply.raises =>
              rpc = "raised" /\ run_result.exception = "InvokeError"
        /\ ~reply.raises =>
              rpc = "returned" /\ run_result.value = reply.content

\* res is rep without its leading and trailing whitespace
IsStrippedReply(res, rep) ==
    \E a \in 0..Len(rep) :
        /\ a + Len(res) <= Len(rep)
        /\ SubSeq(rep, a + 1, a + Len(res)) = res
        /\ \A k \in 1..a : rep[k] \in Whitespace
        /\ \A k \in (a + Len(res) + 1)..Len(rep) : rep[k] \in Whitespace
        /\ res # <<>> => res[1] \notin Whitespace /\ res[Len(res)] \notin Whitespace

\* C25 (amended): a call invokes the language model at most once, and
\* exactly once when the client could be built; without an API key the
\* ValueError of the client reaches the caller before any invocation; an
\* invocation that raises reaches the caller unchanged, with no retry and
\* no substitute result; on success the returned string is the model's
\* reply without its leading and trailing whitespace
C25_InvokedAtMostOnceStrippedReply ==
    /\ invocations <= 1
    /\ LlmCallOver =>
          /\ ~api_key =>
                /\ rpc = "raised" /\ run_result.exception = "ValueError"
                /\ invocations = 0
          /\ api_key => invocations = 1
          /\ api_key /\ reply.raises =>
                rpc = "raised" /\ run_result.exception = "InvokeError"
          /\ api_key /\ ~reply.raises =>
                /\ rpc = "returned" /\ run_result.exception = "none"
                /\ IsStrippedReply(run_result.value, reply.content)

\* a reply with whitespace around it was returned
C25_Witness ==
    /\ rpc = "returned" /\ invocations = 1
    /\ reply.content = <<" ", "a", "\n">>
    /\ run_result = Returned(<<"a">>)

----------------------------------------------------------------------------
(* enhanced_streamlit_app.main: every action of the user reruns the script *)
(* from the top against the session state the earlier runs left            *)

\* the texts of the documents the user has, and the names of their files
DocumentTexts == {"d1", "d2"}
FileNames == {"a.pdf", "b.pdf"}
Files == [name : FileNames, content : DocumentTexts]

\* a value of the session state counts as set: not None, not ""
Truthy(v) == v \notin {"None", ""}

\* what a call of the language model gives for a document text: a reply made
\* from that text, or an empty reply
LlmOutcomes(pdf_text) == {pdf_text, ""}

\* if uploaded_file is not None and its name is not the stored one: the text
\* is extracted and the analysis result is reset
AfterUpload(ss, file) ==
    IF file # NoFile /\ ss.uploaded_filename # file.name
    THEN [ss EXCEPT !.pdf_text = file.content,
                    !.analysis_result = "None",
                    !.uploaded_filename = file.name]
    ELSE ss

\* the assignment the run shows, with its export forms: the preview is
\* inside the block of the analysis result
Shown(ss) ==
    IF Truthy(ss.analysis_result) /\ Truthy(ss.generated_assignment)
    THEN [assignment |-> ss.generated_assignment, download |-> "None"]
    ELSE NothingShown

\* the Analyse button is drawn inside the block of the uploaded file
AnalyseDrawn == uploaded_file # NoFile

\* the Generate button is drawn inside the block of the analysis result
GenerateDrawn == Truthy(session_state.analysis_result)

\* the user puts a file into the uploader: a run with no button pressed
SessionUpload ==
    \E file \in Files :
        /\ file # uploaded_file
        /\ uploaded_file' = file
        /\ session_state' = AfterUpload(session_state, file)
        /\ displayed' = Shown(session_state')
        /\ UNCHANGED <<flowVars, wrapVars, pageVars, layoutVars>>
        /\ UNCHANGED <<odtVars, extractVars, llmVars>>

\* the user removes the file from the uploader: a run with no button pressed
SessionRemoveFile ==
    /\ uploaded_file # NoFile
    /\ uploaded_file' = NoFile
    /\ displayed' = Shown(session_state)
    /\ UNCHANGED session_state
    /\ UNCHANGED <<flowVars, wrapVars, pageVars, layoutVars>>
    /\ UNCHANGED <<odtVars, extractVars, llmVars>>

\* the user presses Analyse Document: run_analysis on the stored text
SessionAnalyse ==
    /\ AnalyseDrawn
    /\ \E analysis \in LlmOutcomes(session_state.pdf_text) :
          session_state' =
              [AfterUpload(session_state, uploaded_file)
                   EXCEPT !.analysis_result = analysis]
    /\ displayed' = Shown(session_state')
    /\ UNCHANGED uploaded_file
    /\ UNCHANGED <<flowVars, wrapVars, pageVars, layoutVars>>
    /\ UNCHANGED <<odtVars, extractVars, llmVars>>

\* the user presses Generate Assignment: run_assignment on the stored text
SessionGenerate ==
    /\ GenerateDrawn
    /\ \E assignment \in LlmOutcomes(session_state.pdf_text) :
          session_state' =
              [AfterUpload(session_state, uploaded_file)
                   EXCEPT !.generated_assignment = assignment]
    /\ displayed' = Shown(session_state')
    /\ UNCHANGED uploaded_file
    /\ UNCHANGED <<flowVars, wrapVars, pageVars, layoutVars>>
    /\ UNCHANGED <<odtVars, extractVars, llmVars>>

\* run_analysis or run_assignment raises: the run ends at the call, with
\* nothing drawn below it and the session state as it was
SessionLlmRaises ==
    /\ AnalyseDrawn \/ GenerateDrawn
    /\ session_state' = AfterUpload(session_state, uploaded_file)
    /\ displayed' = NothingShown
    /\ UNCHANGED uploaded_file
    /\ UNCHANGED <<flowVars, wrapVars, pageVars, layoutVars>>
    /\ UNCHANGED <<odtVars, extractVars, llmVars>>

\* the user submits an export form: a run that builds the file from the
\* shown assignment and offers it for download, or shows the error of the
\* export; nothing changes in the session state
SessionExport ==
    /\ displayed # NothingShown
    /\ session_state' = AfterUpload(session_state, uploaded_file)
    /\ \E download \in {"pdf", "odt", "None"} :
          displayed' = [Shown(session_state') EXCEPT !.download = download]
    /\ UNCHANGED uploaded_file
    /\ UNCHANGED <<flowVars, wrapVars, pageVars, layoutVars>>
    /\ UNCHANGED <<odtVars, extractVars, llmVars>>

\* the first run of a new session: no file, nothing stored
InitSession ==
    /\ uploaded_file = NoFile
    /\ session_state = NoSession
    /\ displayed = NothingShown
    /\ FlowIdle /\ WrapIdle /\ PageIdle /\ LayoutIdle
    /\ OdtIdle /\ ExtractIdle /\ LlmIdle

NextSession ==
    \/ SessionUpload
    \/ SessionRemoveFile
    \/ SessionAnalyse
    \/ SessionGenerate
    \/ SessionLlmRaises
    \/ SessionExport

SpecSession == InitSession /\ [][NextSession]_vars

\* C30: whenever the generated assignment and its download options are
\* displayed while a document is uploaded, that assignment was generated
\* from the text of the uploaded document
C30_ShownAssignmentIsOfCurrentDocument ==
    displayed # NothingShown /\ uploaded_file # NoFile =>
        displayed.assignment = uploaded_file.content

====
